---- MODULE Spec2Model ----
(***************************************************************************)
(* markgrab: page discovery, per-page resolution, bounded-concurrency      *)
(* batch, retry executor and outcome tracker.                              *)
(*                                                                         *)
(* Strings whose characters matter (error messages, retry signatures) are  *)
(* sequences of one-character strings, so that toLowerCase() and           *)
(* includes() are computed and not assumed.                                *)
(***************************************************************************)
EXTENDS Integers, Sequences, FiniteSets, TLC

VARIABLES
    \* --- one run of the program (index.ts main -> scraper.ts scrape)
    opts,        \* ScraperOptions of the run, and how scrape was entered
    pc,          \* where main/scrape is suspended
    strategy,    \* the strategy that committed: none, manifest, follow, single
    manifest,    \* how GET {origin}/llms.txt was answered in this run
    links,       \* the PageLink list the committed strategy produced
    pages,       \* one scrapePage call per link
    queue,       \* p-limit: indices of calls not yet started, in submission order
    activeCount, \* p-limit: calls started and not settled
    progress,    \* ProgressTracker.stats (exists = FALSE: no tracker)
    files,       \* the set of urls whose page file was written
    requests,    \* history: network requests issued
    stderr,      \* history: console.error / console.warn lines
    summaries,   \* history: number of showSummary calls
    exitCode,    \* process exit status (-1: still running / not a process)
    scrapeState, \* the promise scrape returned: notCalled, pending, resolved, rejected
    log,         \* history of a direct scrapePage call: what each await settled with
    hung,        \* environment: the pages whose request never settles
    \* --- one withRetry call on its own
    rcfg,        \* withRetry arguments: maxRetries, baseDelay, retryableErrors given?
    retry,       \* the running withRetry call
    outcomes,    \* history: what each invocation of fn settled with
    \* --- one pure function called on its own
    call         \* the function, its argument, and its result once it returned

runVars == <<opts, pc, strategy, manifest, links, pages, queue, activeCount,
             progress, files, requests, stderr, summaries, exitCode, scrapeState, log, hung>>

retryVars == <<rcfg, retry, outcomes>>

vars == <<opts, pc, strategy, manifest, links, pages, queue, activeCount,
          progress, files, requests, stderr, summaries, exitCode, scrapeState, log, hung,
          rcfg, retry, outcomes, call>>

\* ------------------------------------------------------------------ bounds
MaxRetries == 3

MaxLinks == 2

MaxConcurrent == 2

MaxPageRetries == 1

\* ----------------------------------------------------------------- strings
Uppers == <<"A","B","C","D","E","F","G","H","I","J","K","L","M",
            "N","O","P","Q","R","S","T","U","V","W","X","Y","Z">>

Lowers == <<"a","b","c","d","e","f","g","h","i","j","k","l","m",
            "n","o","p","q","r","s","t","u","v","w","x","y","z">>

\* String.prototype.toLowerCase, one character
LowerChar(c) ==
    IF \E i \in 1..Len(Uppers) : Uppers[i] = c
    THEN Lowers[CHOOSE i \in 1..Len(Uppers) : Uppers[i] = c]
    ELSE c

\* String.prototype.toLowerCase
toLowerCase(s) == [i \in 1..Len(s) |-> LowerChar(s[i])]

\* String.prototype.includes
includes(s, t) ==
    \E k \in 0..(Len(s) - Len(t)) : \A j \in 1..Len(t) : s[k + j] = t[j]

\* retry.ts RETRYABLE_HTTP_ERRORS
RETRYABLE_HTTP_ERRORS ==
    << <<"t","i","m","e","o","u","t">>,
       <<"E","T","I","M","E","D","O","U","T">>,
       <<"E","C","O","N","N","R","E","S","E","T">>,
       <<"E","C","O","N","N","R","E","F","U","S","E","D">>,
       <<"E","N","O","T","F","O","U","N","D">>,
       <<"H","T","T","P"," ","4","2","9">>,
       <<"H","T","T","P"," ","5","0","0">>,
       <<"H","T","T","P"," ","5","0","2">>,
       <<"H","T","T","P"," ","5","0","3">>,
       <<"H","T","T","P"," ","5","0","4">>  >>

\* ------------------------------------------------------------ thrown values
\* What fn() can reject with: an Error carrying a message, or any other value
\* (isError = FALSE: `throw "boom"`, a rejected plain object).
MsgConnReset   == <<"E","C","O","N","N","R","E","S","E","T">>
MsgTimeoutCap  == <<"R","e","a","d"," ","T","i","m","e","o","u","t">>
MsgLowerReset  == <<"r","e","a","d"," ","e","c","o","n","n","r","e","s","e","t">>
MsgFetchFailed == <<"f","e","t","c","h"," ","f","a","i","l","e","d">>
MsgBoom        == <<"b","o","o","m">>

Err(isError, message) == [isError |-> isError, message |-> message]

ErrorValues ==
    { Err(TRUE, MsgConnReset), Err(TRUE, MsgTimeoutCap), Err(TRUE, MsgLowerReset),
      Err(TRUE, MsgFetchFailed), Err(FALSE, MsgBoom) }

NoValue == [isError |-> FALSE, message |-> <<>>]

\* -------------------------------------------------------------- withRetry
\* a final-attempt test that gives up one attempt early
IsFinalAttemptEarly(attempt, maxRetries) == attempt >= maxRetries - 1

\* `if (attempt === maxRetries) break;`
IsFinalAttempt(attempt, maxRetries) == attempt = maxRetries

\* retryableErrors.some(r => errorMessage.includes(r.toLowerCase()))
ShouldRetry(message, retryableErrors) ==
    \E i \in 1..Len(retryableErrors) :
        includes(toLowerCase(message), toLowerCase(retryableErrors[i]))

\* `if (retryableErrors && error instanceof Error) { ... if (!shouldRetry) throw error; }`
\* hasList: the retryableErrors argument was supplied.
MustRethrow(error, hasList, retryableErrors) ==
    hasList /\ error.isError /\ ~ShouldRetry(error.message, retryableErrors)

\* RECURSIVE power of two: Math.pow(2, attempt)
RECURSIVE Pow2(_)
Pow2(n) == IF n = 0 THEN 1 ELSE 2 * Pow2(n - 1)

\* a backoff that grows linearly instead of doubling
BackoffDelayLinear(baseDelay, attempt) == baseDelay * (attempt + 1)

\* `const delay = baseDelay * Math.pow(2, attempt);`
BackoffDelay(baseDelay, attempt) == baseDelay * Pow2(attempt)

\* The state of one withRetry call.  status: "calling" (fn invoked, pending),
\* "sleeping" (await sleep(delay)), "returned", "thrown".
RetryStart ==
    [attempt |-> 0, calls |-> 1, delays |-> <<>>, status |-> "calling",
     ok |-> FALSE, error |-> NoValue]

\* `return await fn();` fn resolved
RetryResolved(rt) == [rt EXCEPT !.status = "returned", !.ok = TRUE]

\* the catch block: fn rejected with `error`
RetryRejected(rt, error, maxRetries, baseDelay, hasList, retryableErrors) ==
    IF IsFinalAttempt(rt.attempt, maxRetries)
    THEN [rt EXCEPT !.status = "thrown", !.error = error]
    ELSE IF MustRethrow(error, hasList, retryableErrors)
    THEN [rt EXCEPT !.status = "thrown", !.error = error]
    ELSE [rt EXCEPT !.status = "sleeping",
                    !.error = error,
                    !.delays = Append(@, BackoffDelay(baseDelay, rt.attempt))]

\* sleep elapsed: attempt++ and fn is invoked again
RetryWake(rt) ==
    [rt EXCEPT !.status = "calling", !.attempt = @ + 1, !.calls = @ + 1]

\* ----------------------------------------------------------- program text
\* progress.ts / scraper.ts defaults
DefaultRetryDelay == 1000

\* llms-txt.ts: `content.trim().length < 10`
MinManifestLength == 10

\* scraper.ts tryFetchNativeMarkdown: `text.length < 10`
MinMarkdownLength == 10

\* generateMarkdownUrls pushes two candidates on every branch
MarkdownCandidates == 2

\* ------------------------------------------------------------------- URLs
\* An absolute URL: hostname, scheme and port relative to baseUrl's ("same" /
\* "other"), a path number, and whether the pathname ends in ".txt".
UrlAt(scheme, host, port, path, txt) ==
    [host |-> host, path |-> path, txt |-> txt, scheme |-> scheme, port |-> port]

Url(host, path, txt) == UrlAt("same", host, "same", path, txt)

OriginUrl == Url("same", 0, FALSE)

\* selectors, as character sequences
SelEmpty == <<>>
SelBlank == <<" ">>
SelNav   == <<"a", ".", "n", "a", "v">>

Whitespace == {" ", "\n"}

RECURSIVE trimStart(_)
trimStart(s) == IF s # <<>> /\ Head(s) \in Whitespace THEN trimStart(Tail(s)) ELSE s

RECURSIVE trimEnd(_)
trimEnd(s) ==
    IF s # <<>> /\ s[Len(s)] \in Whitespace
    THEN trimEnd(SubSeq(s, 1, Len(s) - 1)) ELSE s

\* String.prototype.trim
trim(s) == trimEnd(trimStart(s))

\* ------------------------------------------------------ llms.txt discovery
\* A parsed manifest: sections in document order, each with its links; a link
\* is `valid` when new URL(link.url, baseUrl) does not throw, and then `url`
\* is the resolved URL.
NoManifest == [found |-> FALSE, sections |-> <<>>]

ManifestLink(valid, url) == [valid |-> valid, url |-> url]

\* a fetchLlmsTxt that parses whatever body it gets, whatever the status
FetchLlmsTxtAnyStatus(resp) ==
    IF resp.kind = "throw" THEN NoManifest
    ELSE IF resp.trimmedLength < MinManifestLength THEN NoManifest
    ELSE [found |-> TRUE, sections |-> resp.sections]

\* fetchLlmsTxt, from the response to GET {origin}/llms.txt on
FetchLlmsTxt(resp) ==
    IF resp.kind = "throw" THEN NoManifest
    ELSE IF ~resp.ok THEN NoManifest
    ELSE IF resp.trimmedLength < MinManifestLength THEN NoManifest
    ELSE [found |-> TRUE, sections |-> resp.sections]

PageLink(url, isFullContent) == [url |-> url, isFullContent |-> isFullContent]

\* the inner loop of llmsTxtToPageLinks over one section's links
RECURSIVE SectionPageLinks(_)
SectionPageLinks(ls) ==
    IF ls = <<>> THEN <<>>
    ELSE LET l == Head(ls)
         IN  (IF ~l.valid THEN <<>>
              ELSE IF l.url.host # "same" THEN <<>>
              ELSE << PageLink(l.url, l.url.txt) >>)
             \o SectionPageLinks(Tail(ls))

\* llmsTxtToPageLinks
RECURSIVE llmsTxtToPageLinks(_, _)
llmsTxtToPageLinks(sections, includeOptional) ==
    IF sections = <<>> THEN <<>>
    ELSE (IF Head(sections).isOptional /\ ~includeOptional
          THEN <<>>
          ELSE SectionPageLinks(Head(sections).links))
         \o llmsTxtToPageLinks(Tail(sections), includeOptional)

\* -------------------------------------------------------- follow discovery
\* An element the follow selector matched: the path its href resolves to,
\* whether it has an href and text, whether the href names an asset
\* (_next, sitemap, favicon).
Anchor(path, titled, asset) == [path |-> path, titled |-> titled, asset |-> asset]

\* extractLinks: anchors in document order, untitled ones and assets skipped,
\* deduplicated by resolved URL
RECURSIVE DedupeAnchors(_, _)
DedupeAnchors(anchors, seen) ==
    IF anchors = <<>> THEN <<>>
    ELSE LET a == Head(anchors)
             u == Url("same", a.path, FALSE)
         IN  IF ~a.titled \/ a.asset \/ u \in seen
             THEN DedupeAnchors(Tail(anchors), seen)
             ELSE << PageLink(u, FALSE) >> \o DedupeAnchors(Tail(anchors), seen \cup {u})

extractLinks(anchors) == DedupeAnchors(anchors, {})

\* ------------------------------------------------------- strategy choices
\* a manifest branch that never commits
ManifestCommitsNever(ls) == FALSE

\* `if (links.length > 0)` in the manifest branch
ManifestCommits(ls) == Len(ls) > 0

\* `if (followLinksSelector && followLinksSelector.trim() !== '')`
FollowConfigured(selector) == selector # <<>> /\ trim(selector) # <<>>

\* a zero-link test that lets an empty list through
NoLinksFoundNever(ls) == FALSE

\* `if (links.length === 0)` in the follow branch
NoLinksFound(ls) == Len(ls) = 0

\* --------------------------------------------------------- ProgressTracker
NoTracker ==
    [exists |-> FALSE, total |-> 0, completed |-> 0, success |-> 0, failed |-> 0,
     skipped |-> 0, inProgress |-> 0, errors |-> <<>>]

\* new ProgressTracker(total)
NewTracker(total) == [NoTracker EXCEPT !.exists = TRUE, !.total = total]

\* a start() that counts the page twice
TrackerStartTwice(st) == [st EXCEPT !.inProgress = @ + 2]

\* ProgressTracker.start
TrackerStart(st) == [st EXCEPT !.inProgress = @ + 1]

\* a success() whose count is lost while other pages are in progress
TrackerSuccessRacy(st) ==
    [st EXCEPT !.inProgress = @ - 1, !.completed = @ + 1,
               !.success = IF st.inProgress > 1 THEN @ ELSE @ + 1]

\* ProgressTracker.success
TrackerSuccess(st) ==
    [st EXCEPT !.inProgress = @ - 1, !.completed = @ + 1, !.success = @ + 1]

\* a fail() that counts the page and drops the error entry
TrackerFailUnrecorded(st, url, error) ==
    [st EXCEPT !.inProgress = @ - 1, !.completed = @ + 1, !.failed = @ + 1]

\* ProgressTracker.fail
TrackerFail(st, url, error) ==
    [st EXCEPT !.inProgress = @ - 1, !.completed = @ + 1, !.failed = @ + 1,
               !.errors = Append(@, [url |-> url, error |-> error])]

\* ------------------------------------------------------------- p-limit
\* a limiter that admits one call too many
SlotFreeOneTooMany(active, maxConcurrent) == active <= maxConcurrent

\* pLimit(maxConcurrent): a queued call starts only while fewer than
\* maxConcurrent calls are running
SlotFree(active, maxConcurrent) == active < maxConcurrent

\* -------------------------------------------------------------- scrapePage
\* error messages handed to progress.fail
HttpMessage(status) == [kind |-> "http", status |-> status, text |-> <<>>]

SelectorMessage == [kind |-> "selector", status |-> 0, text |-> <<>>]

\* `error instanceof Error ? error.message : String(error)`
ThrownMessage(error) == [kind |-> "thrown", status |-> 0, text |-> error.message]

MsgWriteFailed == <<"E","A","C","C","E","S">>

IdleRetry ==
    [attempt |-> 0, calls |-> 0, delays |-> <<>>, status |-> "idle",
     ok |-> FALSE, error |-> NoValue]

\* a scrapePage call that has not started (queued in p-limit)
\* no message: the page has not failed under a tracker
NoMessage == [kind |-> "none", status |-> 0, text |-> <<>>]

QueuedPage(link) ==
    [url |-> link.url, full |-> link.isFullContent, pc |-> "queued",
     disp |-> "unknown", stage |-> "none", cand |-> 0, rt |-> IdleRetry,
     outcome |-> "none", calls |-> <<>>, msg |-> NoMessage]

\* a scrapePage that reaches its first await without progress.start()
EnterPageUntracked(pg, disp, useNativeMd, tracked) ==
    LET started == [pg EXCEPT !.disp = disp]
    IN  IF pg.full
        THEN [started EXCEPT !.pc = "fetch", !.stage = "full", !.rt = RetryStart]
        ELSE IF useNativeMd
        THEN [started EXCEPT !.pc = "native", !.cand = 1]
        ELSE [started EXCEPT !.pc = "fetch", !.stage = "html", !.rt = RetryStart]

\* the synchronous head of scrapePage, up to its first await
EnterPage(pg, disp, useNativeMd, tracked) ==
    LET started == [pg EXCEPT !.disp = disp,
                              !.calls = IF tracked THEN <<"start">> ELSE <<>>]
    IN  IF pg.full
        THEN [started EXCEPT !.pc = "fetch", !.stage = "full", !.rt = RetryStart]
        ELSE IF useNativeMd
        THEN [started EXCEPT !.pc = "native", !.cand = 1]
        ELSE [started EXCEPT !.pc = "fetch", !.stage = "html", !.rt = RetryStart]

\* a test that takes an HTML error page for Markdown
NativeAcceptsHtml(resp) ==
    /\ resp.kind # "throw"
    /\ resp.ok
    /\ ~(resp.length < MinMarkdownLength)

\* tryFetchNativeMarkdown's test of one candidate's response
NativeAccepts(resp) ==
    /\ resp.kind # "throw"
    /\ resp.ok
    /\ ~resp.htmlMarker
    /\ ~(resp.length < MinMarkdownLength)

\* ------------------------------------------------------------ environment
\* what the network and the disk can answer
SeqsUpTo(S, n) == UNION { [1..k -> S] : k \in 0..n }

KindLink(kind, path) ==
    CASE kind = "page"     -> ManifestLink(TRUE, Url("same", path, FALSE))
      [] kind = "txt"      -> ManifestLink(TRUE, Url("same", path, TRUE))
      [] kind = "external" -> ManifestLink(TRUE, Url("other", path, FALSE))
      [] OTHER             -> ManifestLink(FALSE, Url("other", path, FALSE))

\* a manifest with a "Docs" section and an "Optional" section
DocOf(main, optional) ==
    << [isOptional |-> FALSE,
        links |-> [i \in 1..Len(main) |-> KindLink(main[i], i)]],
       [isOptional |-> TRUE,
        links |-> [i \in 1..Len(optional) |-> KindLink(optional[i], Len(main) + i)]] >>

\* Sample manifests: up to MaxLinks links in all; the first "Docs" link is a
\* page, a .txt file or a link to another host, the others are pages; the
\* "Optional" section holds at most one page.
MainSamples ==
    { [i \in 1..n |-> IF i = 1 THEN first ELSE "page"] :
        n \in 0..MaxLinks, first \in {"page", "txt", "external"} }

ManifestSamples ==
    { DocOf(ab[1], ab[2]) :
        ab \in { x \in MainSamples \X { <<>>, <<"page">> } :
                   Len(x[1]) + Len(x[2]) <= MaxLinks } }

ManifestResponse(kind, ok, trimmedLength, sections) ==
    [kind |-> kind, ok |-> ok, trimmedLength |-> trimmedLength, sections |-> sections]

\* before GET {origin}/llms.txt has been answered
NotAsked == ManifestResponse("none", FALSE, 0, <<>>)

\* responses to GET {origin}/llms.txt: transport failure, a 404 whose body
\* would parse, a body one character too short, and manifests
ManifestResponses ==
    { ManifestResponse("throw", FALSE, 0, <<>>),
      ManifestResponse("response", FALSE, 40, DocOf(<<"page">>, <<>>)),
      ManifestResponse("response", TRUE, 9, <<>>) }
    \cup { ManifestResponse("response", TRUE, 40, d) : d \in ManifestSamples }

\* what the follow selector matches in the origin page: up to MaxLinks
\* distinct links, the same link twice, an anchor without text, an asset
AnchorSamples ==
    { [i \in 1..n |-> Anchor(i, TRUE, FALSE)] : n \in 0..MaxLinks }
    \cup { << Anchor(1, TRUE, FALSE), Anchor(1, TRUE, FALSE) >>,
            << Anchor(1, FALSE, FALSE) >>,
            << Anchor(1, TRUE, TRUE) >> }

\* errors fetch() rejects with: one with a listed signature, one without
TransportErrors == { Err(TRUE, MsgConnReset), Err(TRUE, MsgFetchFailed) }

PageResponse(ok, status, blank, selectorMatches) ==
    [ok |-> ok, status |-> status, blank |-> blank, selectorMatches |-> selectorMatches,
     innerEmpty |-> FALSE, body |-> <<>>]

\* an HTML page whose first element matching contentAreaSelector has no
\* inner markup: $(contentAreaSelector).html() is ''
EmptyMatchResponse == [PageResponse(TRUE, 200, FALSE, TRUE) EXCEPT !.innerEmpty = TRUE]

\* Bodies of a full-content file: "S" is one <SYSTEM>...</SYSTEM> block, " "
\* one whitespace character, "x" any other text.
FullBodies ==
    { <<>>, <<" ">>, <<"S">>, <<"S", " ">>, <<"x">>, <<"S", " ", "x">>, <<"x", " ">> }

\* markdown.replace(/<SYSTEM>.*?<\/SYSTEM>\s*/gs, ''): every block goes, with
\* the whitespace that follows it
RECURSIVE StripSystem(_)
StripSystem(body) ==
    IF body = <<>> THEN <<>>
    ELSE IF Head(body) = "S" THEN StripSystem(trimStart(Tail(body)))
    ELSE << Head(body) >> \o StripSystem(Tail(body))

\* the value scrapePage assigns to `markdown` on the full-content path
FullContentMarkdown(body) == trim(StripSystem(body))

\* a success response to the fetch of a full-content file
FullResponse(body) ==
    [PageResponse(TRUE, 200, FullContentMarkdown(body) = <<>>, FALSE) EXCEPT !.body = body]

\* How a page's URL behaves for the whole run:
\*   ok        every fetch resolves with usable content, the file is written
\*   fetchFail every fetch fails: rejects, or a non-success status, or (HTML)
\*             contentAreaSelector yields no markup
\*   writeFail fetches are fine, Bun.write rejects
\*   blank     (full-content) the body is empty once the preamble is stripped
Dispositions(full) ==
    IF full THEN {"ok", "fetchFail", "writeFail", "blank"}
    ELSE {"ok", "fetchFail", "writeFail"}

\* statuses for which response.ok is false; a direct call of scrapePage meets
\* each of them, a run one
HttpFailureStatuses ==
    IF opts.entry = "page" THEN {404, 429, 500, 502, 503, 504} ELSE {503}

ResolvedWith(pg) ==
    CASE pg.disp = "fetchFail" ->
            { PageResponse(FALSE, st, FALSE, FALSE) : st \in HttpFailureStatuses }
            \cup (IF pg.stage = "html"
                  THEN { PageResponse(TRUE, 200, FALSE, FALSE), EmptyMatchResponse }
                  ELSE {})
      [] pg.disp = "blank" ->
            IF pg.stage = "full"
            THEN { FullResponse(b) : b \in { x \in FullBodies : FullContentMarkdown(x) = <<>> } }
            ELSE { PageResponse(TRUE, 200, TRUE, FALSE) }
      [] OTHER ->
            IF pg.stage = "full"
            THEN { FullResponse(b) : b \in { x \in FullBodies : FullContentMarkdown(x) # <<>> } }
            ELSE { PageResponse(TRUE, 200, FALSE, TRUE) }

RejectedWith(pg) == IF pg.disp = "fetchFail" THEN TransportErrors ELSE {}

NativeResponse(kind, ok, htmlMarker, length) ==
    [kind |-> kind, ok |-> ok, htmlMarker |-> htmlMarker, length |-> length]

NativeRejections ==
    { NativeResponse("throw", FALSE, FALSE, 0),
      NativeResponse("response", FALSE, FALSE, 40),
      NativeResponse("response", TRUE, TRUE, 40),
      NativeResponse("response", TRUE, FALSE, 9) }

NativeAnswers(pg) ==
    IF pg.disp \in {"ok", "writeFail"}
    THEN NativeRejections \cup { NativeResponse("response", TRUE, FALSE, 40),
                                 NativeResponse("response", TRUE, FALSE, 10) }
    ELSE NativeRejections

\* ------------------------------------------------------------ network log
Request(kind, url) == [kind |-> kind, url |-> url]

\* ----------------------------------------------------------------- options
DefaultMaxRetries == 3

DefaultMaxConcurrent == 10

AllOptions ==
    [entry : {"cli", "api"}, urlOk : BOOLEAN, useLlmsTxt : BOOLEAN,
     followLinksSelector : {SelEmpty, SelBlank, SelNav},
     includeOptional : BOOLEAN, dryRun : BOOLEAN, useNativeMd : BOOLEAN,
     maxConcurrent : (1..MaxConcurrent) \cup {DefaultMaxConcurrent},
     maxRetries : {MaxPageRetries, DefaultMaxRetries}]

\* Runs that vary discovery.  cliArgsToScraperOptions passes neither
\* maxRetries nor maxConcurrent, so a CLI run has the defaults (every page of
\* a small batch starts at once), and here it asks for the manifest or for a
\* follow selector; the runs of other callers go one page at a time with
\* native Markdown probing and combine every selector, filter and manifest.
DiscoveryOptions ==
    { o \in AllOptions :
        /\ (o.entry = "cli") =>
              /\ o.maxConcurrent = DefaultMaxConcurrent
              /\ o.maxRetries = DefaultMaxRetries
              /\ ~o.useNativeMd
              /\ ~o.includeOptional
              /\ o.followLinksSelector # SelBlank
              /\ o.useLlmsTxt => o.followLinksSelector = SelEmpty
        /\ (o.entry = "api") =>
              /\ o.maxConcurrent = 1
              /\ o.maxRetries = MaxPageRetries
              /\ o.useNativeMd
        /\ (~o.useLlmsTxt \/ ~o.urlOk) => ~o.includeOptional }

\* Runs that vary the batch: scrape called with a well-formed URL, every
\* limiter width, native probing on and off; manifest first, or follow only.
BatchOptions ==
    { o \in AllOptions :
        /\ o.entry = "api" /\ o.urlOk /\ ~o.dryRun /\ ~o.includeOptional
        /\ o.maxConcurrent <= MaxConcurrent
        /\ o.maxRetries = MaxPageRetries
        /\ \/ o.useLlmsTxt /\ o.followLinksSelector = SelEmpty
           \/ ~o.useLlmsTxt /\ o.followLinksSelector = SelNav }

\* ------------------------------------------------------------------ scrape
FirstRequest(pg) ==
    IF pg.pc = "native" THEN Request("markdown", pg.url)
    ELSE Request("page", pg.url)

\* a catch block that prints and does not rethrow
ScrapeRejectsQuietly ==
    /\ pc' = "returned"
    /\ scrapeState' = "resolved"
    /\ stderr' = Append(stderr, "scrape: fatal")
    /\ UNCHANGED <<links, pages, queue, activeCount, progress, requests>>

\* the catch block of scrape: print and rethrow
ScrapeRejects ==
    /\ pc' = "returned"
    /\ scrapeState' = "rejected"
    /\ stderr' = Append(stderr, "scrape: fatal")
    /\ UNCHANGED <<links, pages, queue, activeCount, progress, requests>>

\* a batch that starts whether or not dryRun is set
RunBatchIgnoringDryRun(ls) ==
    /\ links' = ls
    /\ pc' = "batch"
    /\ scrapeState' = "pending"
    /\ pages' = [i \in 1..Len(ls) |-> QueuedPage(ls[i])]
    /\ queue' = [i \in 1..Len(ls) |-> i]
    /\ activeCount' = 0
    /\ progress' = NewTracker(Len(ls))
    /\ UNCHANGED <<requests, stderr>>

\* a strategy has a non-empty list: dry-run prints it and returns; otherwise
\* the tracker and the limiter are created and every link is submitted
RunBatch(ls) ==
    /\ links' = ls
    /\ IF opts.dryRun
       THEN /\ pc' = "returned"
            /\ scrapeState' = "resolved"
            /\ UNCHANGED <<pages, queue, activeCount, progress>>
       ELSE /\ pc' = "batch"
            /\ scrapeState' = "pending"
            /\ pages' = [i \in 1..Len(ls) |-> QueuedPage(ls[i])]
            /\ queue' = [i \in 1..Len(ls) |-> i]
            /\ activeCount' = 0
            /\ progress' = NewTracker(Len(ls))
    /\ UNCHANGED <<requests, stderr>>

\* steps 2 and 3 of scrape, up to the next await
AfterManifest ==
    IF FollowConfigured(opts.followLinksSelector)
    THEN /\ strategy' = "follow"
         /\ IF opts.urlOk
            THEN /\ pc' = "extractLinks"
                 /\ scrapeState' = "pending"
                 /\ requests' = requests \cup {Request("extractLinks", OriginUrl)}
                 /\ UNCHANGED <<links, pages, queue, activeCount, progress, stderr>>
            ELSE ScrapeRejects
    ELSE /\ strategy' = "single"
         /\ IF ~opts.urlOk
            THEN ScrapeRejects
            ELSE IF opts.dryRun
            THEN /\ pc' = "returned"
                 /\ scrapeState' = "resolved"
                 /\ links' = << PageLink(OriginUrl, FALSE) >>
                 /\ UNCHANGED <<pages, queue, activeCount, progress, requests, stderr>>
            ELSE \E d \in Dispositions(FALSE) :
                   LET pg == EnterPage(QueuedPage(PageLink(OriginUrl, FALSE)), d,
                                       opts.useNativeMd, FALSE)
                   IN  /\ pc' = "single"
                       /\ scrapeState' = "pending"
                       /\ links' = << PageLink(OriginUrl, FALSE) >>
                       /\ pages' = << pg >>
                       /\ requests' = requests \cup {FirstRequest(pg)}
                       /\ UNCHANGED <<queue, activeCount, progress, stderr>>

\* scrape from its first line to its first await
EnterScrape ==
    IF opts.useLlmsTxt /\ opts.urlOk
    THEN /\ pc' = "llmsTxt"
         /\ scrapeState' = "pending"
         /\ requests' = requests \cup {Request("llms.txt", OriginUrl)}
         /\ UNCHANGED <<strategy, links, pages, queue, activeCount, progress, stderr>>
    ELSE AfterManifest

\* index.ts main: parseArgs validates --url, then scrape is called
Main ==
    /\ pc = "main"
    /\ IF ~opts.urlOk
       THEN /\ pc' = "exited"
            /\ exitCode' = 1
            /\ stderr' = Append(stderr, "main: error")
            /\ UNCHANGED <<strategy, links, pages, queue, activeCount, progress,
                           requests, scrapeState>>
       ELSE EnterScrape /\ UNCHANGED exitCode
    /\ UNCHANGED <<opts, manifest, files, summaries>>
    /\ UNCHANGED <<retryVars, call, hung>>
    /\ UNCHANGED log

\* scrape called by another caller (a library user, the protocol server)
ApiCall ==
    /\ pc = "call"
    /\ EnterScrape
    /\ UNCHANGED <<opts, manifest, files, summaries, exitCode>>
    /\ UNCHANGED <<retryVars, call, hung>>
    /\ UNCHANGED log

\* `await fetchLlmsTxt(baseUrl)` settles; the manifest branch
LlmsTxtSettles ==
    /\ pc = "llmsTxt"
    /\ \E resp \in ManifestResponses :
         LET doc == FetchLlmsTxt(resp)
             ls  == llmsTxtToPageLinks(doc.sections, opts.includeOptional)
         IN  /\ manifest' = resp
             /\ IF doc.found /\ ManifestCommits(ls)
                THEN strategy' = "manifest" /\ RunBatch(ls)
                ELSE AfterManifest
    /\ UNCHANGED <<opts, files, summaries, exitCode>>
    /\ UNCHANGED <<retryVars, call, hung>>
    /\ UNCHANGED log

\* `await extractLinks(...)` rejects: fetch(baseUrl) failed
ExtractLinksRejects ==
    /\ pc = "extractLinks"
    /\ ScrapeRejects
    /\ UNCHANGED <<opts, strategy, manifest, files, summaries, exitCode>>
    /\ UNCHANGED <<retryVars, call, hung>>
    /\ UNCHANGED log

\* `await extractLinks(...)` resolves; the follow branch
ExtractLinksFrom(samples) ==
    /\ pc = "extractLinks"
    /\ \E anchors \in samples :
         LET ls == extractLinks(anchors)
         IN  IF NoLinksFound(ls)
             THEN /\ pc' = "returned"
                  /\ scrapeState' = "resolved"
                  /\ stderr' = stderr \o <<"follow: no links", "follow: hint">>
                  /\ UNCHANGED <<links, pages, queue, activeCount, progress, requests>>
             ELSE RunBatch(ls)
    /\ UNCHANGED <<opts, strategy, manifest, files, summaries, exitCode>>
    /\ UNCHANGED <<retryVars, call, hung>>
    /\ UNCHANGED log

ExtractLinksSettles == ExtractLinksFrom(AnchorSamples)

\* ------------------------------------------------- scrapePage, step by step
\* one settled await of scrapePage: a native-Markdown candidate ("markdown",
\* with its index), a fetch that resolved or rejected, the file write
Event(op, cand, stage, resp) == [op |-> op, cand |-> cand, stage |-> stage, resp |-> resp]

\* the history is kept for a direct call of scrapePage
Logged(ev) == log' = IF opts.entry = "page" THEN Append(log, ev) ELSE log

Tracked == progress.exists

\* a call that never gives its slot back
PageEndsKeepingSlot(p, pg, result, msg) ==
    /\ pages' = [pages EXCEPT ![p] =
                    [pg EXCEPT !.pc = "done", !.outcome = result,
                               !.stage = "none", !.cand = 0, !.rt = IdleRetry,
                               !.calls = IF Tracked THEN Append(@, result) ELSE @,
                               !.msg = IF Tracked /\ result = "fail" THEN msg ELSE @]]
    /\ progress' = IF ~Tracked THEN progress
                   ELSE IF result = "success" THEN TrackerSuccess(progress)
                   ELSE TrackerFail(progress, pg.url, msg)
    /\ UNCHANGED activeCount
    /\ stderr' = IF ~Tracked /\ result = "fail" THEN Append(stderr, "page: error")
                 ELSE stderr

\* scrapePage reaches an end: progress.success() / progress.fail(url, msg),
\* or the console when there is no tracker; p-limit frees the slot
PageEnds(p, pg, result, msg) ==
    /\ pages' = [pages EXCEPT ![p] =
                    [pg EXCEPT !.pc = "done", !.outcome = result,
                               !.stage = "none", !.cand = 0, !.rt = IdleRetry,
                               !.calls = IF Tracked THEN Append(@, result) ELSE @,
                               !.msg = IF Tracked /\ result = "fail" THEN msg ELSE @]]
    /\ progress' = IF ~Tracked THEN progress
                   ELSE IF result = "success" THEN TrackerSuccess(progress)
                   ELSE TrackerFail(progress, pg.url, msg)
    /\ activeCount' = IF pc = "batch" THEN activeCount - 1 ELSE activeCount
    /\ stderr' = IF ~Tracked /\ result = "fail" THEN Append(stderr, "page: error")
                 ELSE stderr

PageContinues(p, pg) ==
    /\ pages' = [pages EXCEPT ![p] = pg]
    /\ UNCHANGED <<progress, activeCount, stderr>>

Running == pc \in {"batch", "single", "page"}

\* a limiter that starts a call only when nothing is running
LimitRunSerial ==
    /\ pc = "batch"
    /\ queue # <<>>
    /\ activeCount = 0
    /\ LET p == Head(queue)
       IN  \E d \in Dispositions(pages[p].full) :
             LET pg == EnterPage(pages[p], d, opts.useNativeMd, TRUE)
             IN  /\ pages' = [pages EXCEPT ![p] = pg]
                 /\ requests' = requests \cup {FirstRequest(pg)}
    /\ queue' = Tail(queue)
    /\ activeCount' = activeCount + 1
    /\ progress' = TrackerStart(progress)
    /\ UNCHANGED <<opts, pc, strategy, manifest, links, files, stderr, summaries,
                   exitCode, scrapeState>>
    /\ UNCHANGED <<retryVars, call, hung>>
    /\ UNCHANGED log

\* p-limit starts the next queued call
LimitRun ==
    /\ pc = "batch"
    /\ queue # <<>>
    /\ SlotFree(activeCount, opts.maxConcurrent)
    /\ LET p == Head(queue)
       IN  \E d \in Dispositions(pages[p].full) :
             LET pg == EnterPage(pages[p], d, opts.useNativeMd, TRUE)
             IN  /\ pages' = [pages EXCEPT ![p] = pg]
                 /\ requests' = requests \cup {FirstRequest(pg)}
    /\ queue' = Tail(queue)
    /\ activeCount' = activeCount + 1
    /\ progress' = TrackerStart(progress)
    /\ UNCHANGED <<opts, pc, strategy, manifest, links, files, stderr, summaries,
                   exitCode, scrapeState>>
    /\ UNCHANGED <<retryVars, call, hung>>
    /\ UNCHANGED log

\* a probing chain without its try/catch: a transport failure ends the page
NativeSettlesThrowing(p) ==
    /\ Running
    /\ pages[p].pc = "native"
    /\ \E resp \in NativeAnswers(pages[p]) :
         LET pg == pages[p]
         IN  /\ Logged(Event("markdown", pg.cand, "none", resp))
             /\ IF resp.kind = "throw"
                THEN /\ PageEnds(p, [pg EXCEPT !.cand = 0], "fail",
                                 ThrownMessage(Err(TRUE, MsgFetchFailed)))
                     /\ UNCHANGED requests
                ELSE IF NativeAccepts(resp)
                THEN /\ PageContinues(p, [pg EXCEPT !.pc = "write", !.cand = 0])
                     /\ UNCHANGED requests
                ELSE IF pg.cand < MarkdownCandidates
                THEN /\ PageContinues(p, [pg EXCEPT !.cand = @ + 1])
                     /\ requests' = requests \cup {Request("markdown", pg.url)}
                ELSE /\ PageContinues(p, [pg EXCEPT !.pc = "fetch", !.stage = "html",
                                                    !.cand = 0, !.rt = RetryStart])
                     /\ requests' = requests \cup {Request("page", pg.url)}
    /\ UNCHANGED <<opts, pc, strategy, manifest, links, queue, files, summaries,
                   exitCode, scrapeState>>
    /\ UNCHANGED <<retryVars, call, hung>>

\* tryFetchNativeMarkdown: the fetch of one candidate settles
NativeSettles(p) ==
    /\ Running
    /\ pages[p].pc = "native"
    /\ \E resp \in NativeAnswers(pages[p]) :
         LET pg == pages[p]
         IN  /\ Logged(Event("markdown", pg.cand, "none", resp))
             /\ IF NativeAccepts(resp)
                THEN /\ PageContinues(p, [pg EXCEPT !.pc = "write", !.cand = 0])
                     /\ UNCHANGED requests
                ELSE IF pg.cand < MarkdownCandidates
                THEN /\ PageContinues(p, [pg EXCEPT !.cand = @ + 1])
                     /\ requests' = requests \cup {Request("markdown", pg.url)}
                ELSE /\ PageContinues(p, [pg EXCEPT !.pc = "fetch", !.stage = "html",
                                                    !.cand = 0, !.rt = RetryStart])
                     /\ requests' = requests \cup {Request("page", pg.url)}
    /\ UNCHANGED <<opts, pc, strategy, manifest, links, queue, files, summaries,
                   exitCode, scrapeState>>
    /\ UNCHANGED <<retryVars, call, hung>>

\* a fetch whose non-success response is handed to the retry loop as a failure
PageFetchResolvesRetrying(p) ==
    /\ Running
    /\ pages[p].pc = "fetch"
    /\ pages[p].rt.status = "calling"
    /\ \E resp \in ResolvedWith(pages[p]) :
         LET pg == [pages[p] EXCEPT !.rt = RetryResolved(@)]
             again == RetryRejected(pages[p].rt, Err(TRUE, MsgFetchFailed), opts.maxRetries,
                                    DefaultRetryDelay, FALSE, RETRYABLE_HTTP_ERRORS)
         IN  /\ Logged(Event("fetch", 0, pg.stage, resp))
             /\ IF ~resp.ok
                THEN (IF again.status = "thrown"
                      THEN PageEnds(p, pg, "fail", HttpMessage(resp.status))
                      ELSE PageContinues(p, [pages[p] EXCEPT !.rt = again]))
                     /\ UNCHANGED requests
                ELSE IF pg.stage = "full"
                THEN IF resp.blank
                     THEN /\ PageContinues(p, [pg EXCEPT !.stage = "html", !.rt = RetryStart])
                          /\ requests' = requests \cup {Request("page", pg.url)}
                     ELSE /\ PageContinues(p, [pg EXCEPT !.pc = "write", !.stage = "none",
                                                         !.rt = IdleRetry])
                          /\ UNCHANGED requests
                ELSE IF ~resp.selectorMatches \/ resp.innerEmpty
                THEN PageEnds(p, pg, "fail", SelectorMessage) /\ UNCHANGED requests
                ELSE /\ PageContinues(p, [pg EXCEPT !.pc = "write", !.stage = "none",
                                                    !.rt = IdleRetry])
                     /\ UNCHANGED requests
    /\ UNCHANGED <<opts, pc, strategy, manifest, links, queue, files, summaries,
                   exitCode, scrapeState>>
    /\ UNCHANGED <<retryVars, call, hung>>

\* withRetry(() => fetch(url)): fetch resolves with a response
PageFetchResolves(p) ==
    /\ Running
    /\ pages[p].pc = "fetch"
    /\ pages[p].rt.status = "calling"
    /\ \E resp \in ResolvedWith(pages[p]) :
         LET pg == [pages[p] EXCEPT !.rt = RetryResolved(@)]
         IN  /\ Logged(Event("fetch", 0, pg.stage, resp))
             /\ IF ~resp.ok
                THEN PageEnds(p, pg, "fail", HttpMessage(resp.status)) /\ UNCHANGED requests
                ELSE IF pg.stage = "full"
                THEN IF resp.blank
                     THEN /\ PageContinues(p, [pg EXCEPT !.stage = "html", !.rt = RetryStart])
                          /\ requests' = requests \cup {Request("page", pg.url)}
                     ELSE /\ PageContinues(p, [pg EXCEPT !.pc = "write", !.stage = "none",
                                                         !.rt = IdleRetry])
                          /\ UNCHANGED requests
                ELSE IF ~resp.selectorMatches \/ resp.innerEmpty
                THEN PageEnds(p, pg, "fail", SelectorMessage) /\ UNCHANGED requests
                ELSE /\ PageContinues(p, [pg EXCEPT !.pc = "write", !.stage = "none",
                                                    !.rt = IdleRetry])
                     /\ UNCHANGED requests
    /\ UNCHANGED <<opts, pc, strategy, manifest, links, queue, files, summaries,
                   exitCode, scrapeState>>
    /\ UNCHANGED <<retryVars, call, hung>>

\* withRetry(() => fetch(url)): fetch rejects
PageFetchRejects(p) ==
    /\ Running
    /\ pages[p].pc = "fetch"
    /\ pages[p].rt.status = "calling"
    /\ \E e \in RejectedWith(pages[p]) :
         LET rt == RetryRejected(pages[p].rt, e, opts.maxRetries, DefaultRetryDelay,
                                 TRUE, RETRYABLE_HTTP_ERRORS)
             pg == [pages[p] EXCEPT !.rt = rt]
         IN  /\ Logged(Event("reject", 0, pg.stage, e))
             /\ IF rt.status = "thrown"
                THEN PageEnds(p, pg, "fail", ThrownMessage(e))
                ELSE PageContinues(p, pg)
    /\ UNCHANGED <<opts, pc, strategy, manifest, links, queue, files, requests,
                   summaries, exitCode, scrapeState>>
    /\ UNCHANGED <<retryVars, call, hung>>

\* withRetry: the backoff sleep ends and fetch is called again
PageSleepElapsed(p) ==
    /\ Running
    /\ pages[p].pc = "fetch"
    /\ pages[p].rt.status = "sleeping"
    /\ PageContinues(p, [pages[p] EXCEPT !.rt = RetryWake(@)])
    /\ UNCHANGED <<opts, pc, strategy, manifest, links, queue, files, requests,
                   summaries, exitCode, scrapeState>>
    /\ UNCHANGED <<retryVars, call, hung>>
    /\ UNCHANGED log

\* `await Bun.write(filePath, markdown)` settles
PageWriteSettles(p) ==
    /\ Running
    /\ pages[p].pc = "write"
    /\ Logged(Event("write", 0, "none", pages[p].disp # "writeFail"))
    /\ IF pages[p].disp = "writeFail"
       THEN /\ PageEnds(p, pages[p], "fail", ThrownMessage(Err(TRUE, MsgWriteFailed)))
            /\ UNCHANGED files
       ELSE /\ PageEnds(p, pages[p], "success", SelectorMessage)
            /\ files' = files \cup {pages[p].url}
    /\ UNCHANGED <<opts, pc, strategy, manifest, links, queue, requests, summaries,
                   exitCode, scrapeState>>
    /\ UNCHANGED <<retryVars, call, hung>>

AllSettled == \A p \in 1..Len(pages) : pages[p].pc = "done"

\* Promise.all resolves: showSummary, return
BatchDone ==
    /\ pc = "batch"
    /\ AllSettled
    /\ pc' = "returned"
    /\ scrapeState' = "resolved"
    /\ summaries' = summaries + 1
    /\ UNCHANGED <<opts, strategy, manifest, links, pages, queue, activeCount, progress,
                   files, requests, stderr, exitCode>>
    /\ UNCHANGED <<retryVars, call, hung>>
    /\ UNCHANGED log

\* single-page mode: `await scrapePage(...)` returns
SingleDone ==
    /\ pc = "single"
    /\ AllSettled
    /\ pc' = "returned"
    /\ scrapeState' = "resolved"
    /\ UNCHANGED <<opts, strategy, manifest, links, pages, queue, activeCount, progress,
                   files, requests, stderr, summaries, exitCode>>
    /\ UNCHANGED <<retryVars, call, hung>>
    /\ UNCHANGED log

\* a main that exits 1 when the summary counted a failed page
MainReturnsFailedPages ==
    /\ pc = "returned"
    /\ opts.entry = "cli"
    /\ pc' = "exited"
    /\ IF scrapeState = "rejected"
       THEN exitCode' = 1 /\ stderr' = Append(stderr, "main: error")
       ELSE /\ exitCode' = (IF progress.failed > 0 THEN 1 ELSE 0)
            /\ UNCHANGED stderr
    /\ UNCHANGED <<opts, strategy, manifest, links, pages, queue, activeCount, progress,
                   files, requests, summaries, scrapeState>>
    /\ UNCHANGED <<retryVars, call, hung>>
    /\ UNCHANGED log

\* main after `await scrape(options)`: the catch prints and exits 1;
\* otherwise the process ends with status 0
MainReturns ==
    /\ pc = "returned"
    /\ opts.entry = "cli"
    /\ pc' = "exited"
    /\ IF scrapeState = "rejected"
       THEN exitCode' = 1 /\ stderr' = Append(stderr, "main: error")
       ELSE exitCode' = 0 /\ UNCHANGED stderr
    /\ UNCHANGED <<opts, strategy, manifest, links, pages, queue, activeCount, progress,
                   files, requests, summaries, scrapeState>>
    /\ UNCHANGED <<retryVars, call, hung>>
    /\ UNCHANGED log

NoCall == [fn |-> "none", arg |-> <<>>, returned |-> FALSE, result |-> <<>>]

IdleRetryVars ==
    /\ rcfg = [maxRetries |-> 0, baseDelay |-> DefaultRetryDelay, hasList |-> FALSE]
    /\ retry = IdleRetry
    /\ outcomes = <<>>

InitRun(options) ==
    /\ opts \in options
    /\ pc = IF opts.entry = "cli" THEN "main" ELSE "call"
    /\ strategy = "none"
    /\ manifest = NotAsked
    /\ links = <<>>
    /\ pages = <<>>
    /\ queue = <<>>
    /\ activeCount = 0
    /\ progress = NoTracker
    /\ files = {}
    /\ requests = {}
    /\ stderr = <<>>
    /\ summaries = 0
    /\ exitCode = -1
    /\ scrapeState = "notCalled"
    /\ log = <<>>
    /\ IdleRetryVars
    /\ call = NoCall

Next ==
    \/ Main
    \/ ApiCall
    \/ LlmsTxtSettles
    \/ ExtractLinksRejects
    \/ ExtractLinksSettles
    \/ LimitRun
    \/ \E p \in 1..Len(pages) : NativeSettles(p)
    \/ \E p \in 1..Len(pages) : PageFetchResolves(p)
    \/ \E p \in 1..Len(pages) : PageFetchRejects(p)
    \/ \E p \in 1..Len(pages) : PageSleepElapsed(p)
    \/ \E p \in 1..Len(pages) : PageWriteSettles(p)
    \/ BatchDone
    \/ SingleDone
    \/ MainReturns

Init == InitRun(DiscoveryOptions) /\ hung = {}

Spec == Init /\ [][Next]_vars

\* the batch on its own: scrape as a library call, no process around it
InitBatch == InitRun(BatchOptions) /\ hung = {}

NextBatch ==
    \/ ApiCall
    \/ LlmsTxtSettles
    \/ ExtractLinksRejects
    \/ ExtractLinksSettles
    \/ LimitRun
    \/ \E p \in 1..Len(pages) : NativeSettles(p)
    \/ \E p \in 1..Len(pages) : PageFetchResolves(p)
    \/ \E p \in 1..Len(pages) : PageFetchRejects(p)
    \/ \E p \in 1..Len(pages) : PageSleepElapsed(p)
    \/ \E p \in 1..Len(pages) : PageWriteSettles(p)
    \/ BatchDone
    \/ SingleDone

SpecBatch == InitBatch /\ [][NextBatch]_vars

\* --------------------------------------- scrapePage called directly
\* scrapePage is exported: a caller passes the URL, isFullContent, a tracker
\* or none, useNativeMd and maxRetries.
PageOptions ==
    { [entry |-> "page", urlOk |-> TRUE, useLlmsTxt |-> FALSE,
       followLinksSelector |-> SelEmpty, includeOptional |-> FALSE,
       dryRun |-> FALSE, useNativeMd |-> n,
       maxConcurrent |-> DefaultMaxConcurrent, maxRetries |-> MaxPageRetries] :
        n \in BOOLEAN }

InitPage ==
    /\ opts \in PageOptions
    /\ pc = "page"
    /\ strategy = "none"
    /\ manifest = NotAsked
    /\ links = <<>>
    /\ \E full \in BOOLEAN :
         pages = << QueuedPage(PageLink(Url("same", 1, full), full)) >>
    /\ queue = <<>>
    /\ activeCount = 0
    /\ progress \in {NoTracker, NewTracker(1)}
    /\ files = {}
    /\ requests = {}
    /\ stderr = <<>>
    /\ summaries = 0
    /\ exitCode = -1
    /\ scrapeState = "notCalled"
    /\ log = <<>>
    /\ hung = {}
    /\ IdleRetryVars
    /\ call = NoCall

\* the call: scrapePage runs to its first await
PageCall ==
    /\ pc = "page"
    /\ pages[1].pc = "queued"
    /\ \E d \in Dispositions(pages[1].full) :
         LET pg == EnterPage(pages[1], d, opts.useNativeMd, Tracked)
         IN  /\ pages' = << pg >>
             /\ requests' = requests \cup {FirstRequest(pg)}
    /\ progress' = IF Tracked THEN TrackerStart(progress) ELSE progress
    /\ UNCHANGED <<opts, pc, strategy, manifest, links, queue, activeCount, files,
                   stderr, summaries, exitCode, scrapeState, log, hung>>
    /\ UNCHANGED <<retryVars, call, hung>>

\* the promise scrapePage returned resolves
PageReturns ==
    /\ pc = "page"
    /\ AllSettled
    /\ pc' = "returned"
    /\ UNCHANGED <<opts, strategy, manifest, links, pages, queue, activeCount, progress,
                   files, requests, stderr, summaries, exitCode, scrapeState, log, hung>>
    /\ UNCHANGED <<retryVars, call, hung>>

NextPage ==
    \/ PageCall
    \/ \E p \in 1..Len(pages) : NativeSettles(p)
    \/ \E p \in 1..Len(pages) : PageFetchResolves(p)
    \/ \E p \in 1..Len(pages) : PageFetchRejects(p)
    \/ \E p \in 1..Len(pages) : PageSleepElapsed(p)
    \/ \E p \in 1..Len(pages) : PageWriteSettles(p)
    \/ PageReturns

SpecPage == InitPage /\ [][NextPage]_vars

\* --------------------------------------------- withRetry on its own
BaseDelays == {100, 1000}

RetryConfigs ==
    [maxRetries : 0..MaxRetries, baseDelay : BaseDelays, hasList : BOOLEAN]

IdleRunVars ==
    /\ opts = [entry |-> "api", urlOk |-> TRUE, useLlmsTxt |-> FALSE,
               followLinksSelector |-> SelEmpty, includeOptional |-> FALSE,
               dryRun |-> FALSE, useNativeMd |-> FALSE,
               maxConcurrent |-> DefaultMaxConcurrent, maxRetries |-> DefaultMaxRetries]
    /\ pc = "idle"
    /\ strategy = "none"
    /\ manifest = NotAsked
    /\ links = <<>>
    /\ pages = <<>>
    /\ queue = <<>>
    /\ activeCount = 0
    /\ progress = NoTracker
    /\ files = {}
    /\ requests = {}
    /\ stderr = <<>>
    /\ summaries = 0
    /\ exitCode = -1
    /\ scrapeState = "notCalled"
    /\ log = <<>>
    /\ hung = {}

InitRetry ==
    /\ rcfg \in RetryConfigs
    /\ retry = RetryStart
    /\ outcomes = <<>>
    /\ IdleRunVars
    /\ call = NoCall

\* fn() resolves
FnResolves ==
    /\ retry.status = "calling"
    /\ retry' = RetryResolved(retry)
    /\ outcomes' = Append(outcomes, [ok |-> TRUE, err |-> NoValue])
    /\ UNCHANGED rcfg
    /\ UNCHANGED <<runVars, call>>

\* fn() rejects with some value
FnRejects ==
    /\ retry.status = "calling"
    /\ \E e \in ErrorValues :
         /\ retry' = RetryRejected(retry, e, rcfg.maxRetries, rcfg.baseDelay,
                                   rcfg.hasList, RETRYABLE_HTTP_ERRORS)
         /\ outcomes' = Append(outcomes, [ok |-> FALSE, err |-> e])
    /\ UNCHANGED rcfg
    /\ UNCHANGED <<runVars, call>>

\* the backoff timer fires
SleepElapsed ==
    /\ retry.status = "sleeping"
    /\ retry' = RetryWake(retry)
    /\ UNCHANGED <<rcfg, outcomes>>
    /\ UNCHANGED <<runVars, call>>

NextRetry == FnResolves \/ FnRejects \/ SleepElapsed

SpecRetry == InitRetry /\ [][NextRetry]_vars

\* ----------------------------- the batch when every await settles
\* the batches of BatchOptions; native-Markdown probing is followed one
\* page at a time, the other paths of a page at every maxConcurrent
FairOptions == { o \in BatchOptions : o.useNativeMd => o.maxConcurrent = 1 }

InitBatchFair == InitRun(FairOptions) /\ hung = {}

\* every request, timer and write settles and the event loop runs the
\* continuation that is ready: the run does not stop while a step is possible
FairBatch == WF_vars(NextBatch)

SpecBatchFair == InitBatchFair /\ [][NextBatch]_vars /\ FairBatch

\* ------------------------------- a batch in which one page never settles
\* one link more than the other batches have, so that with maxConcurrent 2
\* two pages share the slot the hung page leaves
HungLinks == MaxLinks + 1

HungOptions ==
    { o \in BatchOptions : ~o.useLlmsTxt /\ ~o.useNativeMd /\ o.maxConcurrent >= 2 }

HungAnchors == { [i \in 1..n |-> Anchor(i, TRUE, FALSE)] : n \in 0..HungLinks }

InitHung ==
    /\ InitRun(HungOptions)
    /\ hung \in { {h} : h \in 1..HungLinks }

\* every await settles except those of a hung page
NextHung ==
    \/ ApiCall
    \/ ExtractLinksRejects
    \/ ExtractLinksFrom(HungAnchors)
    \/ LimitRun
    \/ \E p \in (1..Len(pages)) \ hung : PageFetchResolves(p)
    \/ \E p \in (1..Len(pages)) \ hung : PageFetchRejects(p)
    \/ \E p \in (1..Len(pages)) \ hung : PageSleepElapsed(p)
    \/ \E p \in (1..Len(pages)) \ hung : PageWriteSettles(p)
    \/ BatchDone

\* as FairBatch, for every continuation but those of the hung page
FairHung == WF_vars(NextHung)

SpecHung == InitHung /\ [][NextHung]_vars /\ FairHung

\* ------------------------------------------------ parseLlmsTxt, parseLink
\* String.prototype.startsWith, slice(n), split('\n'), Array.prototype.join('\n')
startsWith(s, prefix) ==
    Len(s) >= Len(prefix) /\ SubSeq(s, 1, Len(prefix)) = prefix

slice(s, n) == SubSeq(s, n + 1, Len(s))

RECURSIVE split(_)
split(content) ==
    IF \E i \in 1..Len(content) : content[i] = "\n"
    THEN LET i == CHOOSE k \in 1..Len(content) :
                    content[k] = "\n" /\ \A j \in 1..(k - 1) : content[j] # "\n"
         IN  << SubSeq(content, 1, i - 1) >> \o split(slice(content, i))
    ELSE << content >>

RECURSIVE join(_)
join(lines) ==
    IF lines = <<>> THEN <<>>
    ELSE IF Len(lines) = 1 THEN lines[1]
    ELSE lines[1] \o <<"\n">> \o join(Tail(lines))

\* where /\[([^\]]+)\]\(([^)]+)\)/ matches when the match starts at i:
\* the first ] after i, then (, then the first ) after it
LinkMatchAt(text, i) ==
    LET closers == { j \in (i + 1)..Len(text) : text[j] = "]" }
        j == IF closers = {} THEN 0
             ELSE CHOOSE x \in closers : \A y \in closers : x <= y
        parens == { k \in (j + 2)..Len(text) : text[k] = ")" }
        k == IF j = 0 \/ parens = {} THEN 0
             ELSE CHOOSE x \in parens : \A y \in parens : x <= y
    IN  [found |-> /\ text[i] = "["
                   /\ j >= i + 2
                   /\ j + 1 <= Len(text) /\ text[j + 1] = "("
                   /\ k >= j + 3,
         close |-> j, end |-> k]

NoLink == [found |-> FALSE, title |-> <<>>, url |-> <<>>, hasNotes |-> FALSE, notes |-> <<>>]

\* parseLink: the leftmost match of the pattern anywhere in the text
parseLink(text) ==
    LET starts == { i \in 1..Len(text) : LinkMatchAt(text, i).found }
    IN  IF starts = {} THEN NoLink
        ELSE LET i == CHOOSE x \in starts : \A y \in starts : x <= y
                 m == LinkMatchAt(text, i)
                 hasNotes == m.end + 1 <= Len(text) /\ text[m.end + 1] = ":"
             IN  [found |-> TRUE,
                  title |-> trim(SubSeq(text, i + 1, m.close - 1)),
                  url |-> trim(SubSeq(text, m.close + 2, m.end - 1)),
                  hasNotes |-> hasNotes,
                  notes |-> IF hasNotes THEN trim(slice(text, m.end + 1)) ELSE <<>>]

LinkOf(m) == [title |-> m.title, url |-> m.url, hasNotes |-> m.hasNotes, notes |-> m.notes]

MsgOptional == <<"o", "p", "t", "i", "o", "n", "a", "l">>

\* the locals of parseLlmsTxt before the loop; detailsFrom remembers which
\* lines were pushed to detailsLines
ParseStart ==
    [title |-> <<>>, hasDescription |-> FALSE, description |-> <<>>,
     hasDetails |-> FALSE, details |-> <<>>, sections |-> <<>>,
     hasSection |-> FALSE, currentSection |-> [title |-> <<>>, isOptional |-> FALSE, links |-> <<>>],
     detailsLines |-> <<>>, detailsFrom |-> <<>>, inDetails |-> FALSE]

\* a list line that drops its siblings when it is not a link
AddLinkOrReset(ls, m) == IF m.found THEN Append(ls, LinkOf(m)) ELSE <<>>

\* `if (link) currentSection.links.push(link)`
AddLink(ls, m) == IF m.found THEN Append(ls, LinkOf(m)) ELSE ls

\* one turn of the loop of parseLlmsTxt, on line number n
ParseLine(st, line, n) ==
    LET trimmed == trim(line)
    IN  IF line = <<>> THEN st
        ELSE IF trimmed = <<>>
        THEN IF st.inDetails
             THEN [st EXCEPT !.detailsLines = Append(@, <<>>),
                             !.detailsFrom = Append(@, n)]
             ELSE st
        ELSE IF startsWith(trimmed, <<"#", " ">>)
        THEN [st EXCEPT !.title = trim(slice(trimmed, 2)), !.inDetails = FALSE]
        ELSE IF startsWith(trimmed, <<">">>)
        THEN [st EXCEPT !.hasDescription = TRUE,
                        !.description = trim(slice(trimmed, 1)),
                        !.inDetails = TRUE]
        ELSE IF startsWith(trimmed, <<"#", "#", " ">>)
        THEN LET closing == st.inDetails /\ Len(st.detailsLines) > 0
                 sectionTitle == trim(slice(trimmed, 3))
             IN  [st EXCEPT
                    !.hasDetails = IF closing THEN TRUE ELSE @,
                    !.details = IF closing THEN trim(join(st.detailsLines)) ELSE @,
                    !.inDetails = IF closing THEN FALSE ELSE @,
                    !.sections = IF st.hasSection THEN Append(@, st.currentSection) ELSE @,
                    !.hasSection = TRUE,
                    !.currentSection =
                        [title |-> sectionTitle,
                         isOptional |-> toLowerCase(sectionTitle) = MsgOptional,
                         links |-> <<>>]]
        ELSE IF startsWith(trimmed, <<"-">>) \/ startsWith(trimmed, <<"*">>)
        THEN IF st.hasSection
             THEN [st EXCEPT !.currentSection.links =
                                AddLink(@, parseLink(trim(slice(trimmed, 1))))]
             ELSE st
        ELSE IF st.inDetails
        THEN [st EXCEPT !.detailsLines = Append(@, line),
                        !.detailsFrom = Append(@, n)]
        ELSE st

RECURSIVE ParseLines(_, _, _)
ParseLines(st, lines, n) ==
    IF n > Len(lines) THEN st
    ELSE ParseLines(ParseLine(st, lines[n], n), lines, n + 1)

\* parseLlmsTxt
parseLlmsTxt(content) ==
    LET st == ParseLines(ParseStart, split(content), 1)
        closing == st.inDetails /\ Len(st.detailsLines) > 0
    IN  [title |-> st.title,
         hasDescription |-> st.hasDescription, description |-> st.description,
         hasDetails |-> st.hasDetails \/ closing,
         details |-> IF closing THEN trim(join(st.detailsLines)) ELSE st.details,
         sections |-> IF st.hasSection THEN Append(st.sections, st.currentSection)
                      ELSE st.sections,
         detailsFrom |-> st.detailsFrom]

\* ------------------------------------ the manifest functions on their own
\* most lines in a manifest text tried line by line
MaxLines == 3

\* lines of a manifest; a link target is written as one symbol
LineSamples ==
    { <<"#", " ", "T">>,
      <<">", " ", "d">>,
      <<"#", "#", " ", "A">>,
      <<" ", "#", "#", " ", "B", " ">>,
      <<"x">>,
      <<" ">>,
      <<"-", " ", "[", "a", "]", "(", "/p1", ")">>,
      <<"*", "[", "b", "]", "(", "/p2", ")", ":", " ", "n">>,
      <<"-", " ", "[", "a", "]", "/p1">>,
      <<"-", " ", "x", " ", "[", "c", "]", "(", "/p3", ")">> }

\* a longer manifest: a description, a section with a malformed line
\* between two links and a line of text, an empty section, a last section
LongLines ==
    << <<">", " ", "d">>,
       <<"#", "#", " ", "A">>,
       <<"-", " ", "[", "a", "]", "(", "/p1", ")">>,
       <<"-", " ", "[", "a", "]", "/p1">>,
       <<"*", "[", "b", "]", "(", "/p2", ")", ":", " ", "n">>,
       <<"x">>,
       <<" ", "#", "#", " ", "B", " ">>,
       <<"#", "#", " ", "o", "p", "t", "i", "o", "n", "a", "l">>,
       <<"-", " ", "x", " ", "[", "c", "]", "(", "/p3", ")">> >>

ParseContents ==
    { join(ls) : ls \in SeqsUpTo(LineSamples, MaxLines) }
    \cup { join(SubSeq(LongLines, 1, n)) : n \in 1..Len(LongLines) }

\* how a link target of a manifest can be written, by the place of the
\* link in the manifest: a path, a path ending in .txt, another hostname,
\* another port, another scheme, and text new URL() rejects
TargetKinds == {"page", "txt", "otherHost", "otherPort", "otherScheme", "invalid"}

TargetText(kind, n) ==
    CASE kind = "page"        -> <<"/p1", "/p2", "/p3">>[n]
      [] kind = "txt"         -> <<"/f1.txt", "/f2.txt", "/f3.txt">>[n]
      [] kind = "otherHost"   -> <<"https://other.test/p1", "https://other.test/p2",
                                   "https://other.test/p3">>[n]
      [] kind = "otherPort"   -> <<"https://x.test:8443/p1", "https://x.test:8443/p2",
                                   "https://x.test:8443/p3">>[n]
      [] kind = "otherScheme" -> <<"http://x.test/p1", "http://x.test/p2",
                                   "http://x.test/p3">>[n]
      [] OTHER                -> <<"https://[1", "https://[2", "https://[3">>[n]

\* new URL(link.url, baseUrl) for baseUrl https://x.test/
ResolveTarget(url) ==
    IF \E k \in TargetKinds, n \in 1..3 : url = << TargetText(k, n) >>
    THEN LET kn == CHOOSE kn \in TargetKinds \X (1..3) : url = << TargetText(kn[1], kn[2]) >>
             k == kn[1]
         IN  ManifestLink(k # "invalid",
                 UrlAt(IF k = "otherScheme" THEN "other" ELSE "same",
                       IF k \in {"otherHost", "invalid"} THEN "other" ELSE "same",
                       IF k = "otherPort" THEN "other" ELSE "same",
                       kn[2], k = "txt"))
    ELSE IF url = <<>> THEN ManifestLink(TRUE, OriginUrl)
    ELSE ManifestLink(FALSE, Url("other", 0, FALSE))

\* the sections of a parsed manifest as llmsTxtToPageLinks reads them
ResolvedSections(secs) ==
    [i \in 1..Len(secs) |->
        [isOptional |-> secs[i].isOptional,
         links |-> [j \in 1..Len(secs[i].links) |-> ResolveTarget(secs[i].links[j].url)]]]

LinkLine(kind, n) == <<"-", " ", "[", "t", "]", "(", TargetText(kind, n), ")">>

OptionalHeadings ==
    { <<"#", "#", " ", "O", "p", "t", "i", "o", "n", "a", "l">>,
      <<"#", "#", " ", "O", "P", "T", "I", "O", "N", "A", "L">>,
      <<"#", "#", " ", "o", "p", "t", "i", "o", "n", "a", "l", " ">> }

\* manifests with a "D" section of up to two links and, before or after it,
\* an Optional section of one link
FilterContents ==
    { join(IF c.optionalFirst
           THEN << c.heading, LinkLine(c.optional, 3), <<"#", "#", " ", "D">> >>
                \o [i \in 1..Len(c.main) |-> LinkLine(c.main[i], i)]
           ELSE << <<"#", "#", " ", "D">> >>
                \o [i \in 1..Len(c.main) |-> LinkLine(c.main[i], i)]
                \o << c.heading, LinkLine(c.optional, 3) >>) :
        c \in [main : SeqsUpTo(TargetKinds, 2), optional : {"page", "otherHost", "otherPort"},
               heading : OptionalHeadings, optionalFirst : BOOLEAN] }

InitManifest ==
    /\ \E content \in ParseContents \cup FilterContents :
         call = [fn |-> "parseLlmsTxt", arg |-> content,
                 returned |-> FALSE, result |-> <<>>]
    /\ IdleRunVars
    /\ IdleRetryVars

ParseLlmsTxtReturns ==
    /\ call.fn = "parseLlmsTxt"
    /\ ~call.returned
    /\ call' = [call EXCEPT !.returned = TRUE, !.result = parseLlmsTxt(call.arg)]
    /\ UNCHANGED <<runVars, retryVars>>

\* llmsTxtToPageLinks(llmsTxt, baseUrl, includeOptional) on what was parsed
LlmsTxtToPageLinksReturns ==
    /\ call.fn = "parseLlmsTxt"
    /\ call.returned
    /\ \E includeOptional \in BOOLEAN :
         call' = [fn |-> "llmsTxtToPageLinks",
                  arg |-> [llmsTxt |-> call.result, includeOptional |-> includeOptional],
                  returned |-> TRUE,
                  result |-> llmsTxtToPageLinks(ResolvedSections(call.result.sections),
                                                includeOptional)]
    /\ UNCHANGED <<runVars, retryVars>>

NextManifest == ParseLlmsTxtReturns \/ LlmsTxtToPageLinksReturns

SpecManifest == InitManifest /\ [][NextManifest]_vars

\* --------------------------------- generateMarkdownUrls on its own
\* longest text after the origin in the URLs tried
MaxUrlTail == 4

\* a URL string is its origin, taken as one symbol, followed by the
\* characters written after it
UrlOrigin == "https://x.test"

UrlChars == {"/", "a", ".", "?", "#"}

DotMd == <<".", "m", "d">>

IndexMd == <<"i", "n", "d", "e", "x", ".", "m", "d">>

\* String.prototype.endsWith for one character
endsWith(s, c) == s # <<>> /\ s[Len(s)] = c

\* position of the first character of s that is in cs, Len(s) + 1 if none
FirstIndexIn(s, cs) ==
    IF \E i \in 1..Len(s) : s[i] \in cs
    THEN CHOOSE i \in 1..Len(s) : s[i] \in cs /\ \A j \in 1..(i - 1) : s[j] \notin cs
    ELSE Len(s) + 1

\* new URL(url): the path stops at the first ? or #, and is / when empty
NewURL(url) ==
    LET rest == Tail(url)
        path == SubSeq(rest, 1, FirstIndexIn(rest, {"?", "#"}) - 1)
    IN  [origin |-> <<Head(url)>>,
         pathname |-> IF path = <<>> THEN <<"/">> ELSE path]

\* the URL parser rewrites . and .. segments; such URLs are left out
HasDotSegment(path) ==
    \E i \in 1..Len(path) :
        /\ path[i] = "/"
        /\ \E n \in 1..2 :
              /\ i + n <= Len(path)
              /\ \A k \in 1..n : path[i + k] = "."
              /\ (i + n = Len(path) \/ path[i + n + 1] = "/")

PageUrlStrings ==
    { <<UrlOrigin>> \o t : t \in
        { t \in SeqsUpTo(UrlChars, MaxUrlTail) :
            /\ t = <<>> \/ t[1] \in {"/", "?", "#"}
            /\ ~HasDotSegment(NewURL(<<UrlOrigin>> \o t).pathname) } }

IsAlnum(c) == \E i \in 1..26 : c = Lowers[i] \/ c = Uppers[i]

\* pathnameWithoutSlash.match(/^(.+)\.([a-z0-9]+)$/i): the extension is
\* what follows the last dot; index of that dot, 0 when there is no match
ExtMatch(path) ==
    IF \E i \in 2..(Len(path) - 1) :
          path[i] = "." /\ \A j \in (i + 1)..Len(path) : IsAlnum(path[j])
    THEN CHOOSE i \in 2..(Len(path) - 1) :
          path[i] = "." /\ \A j \in (i + 1)..Len(path) : IsAlnum(path[j])
    ELSE 0

generateMarkdownUrls(url) ==
    LET urlObj == NewURL(url)
        pathname == urlObj.pathname
        hasTrailingSlash == endsWith(url, "/")
        pathnameWithoutSlash ==
            IF endsWith(pathname, "/")
            THEN SubSeq(pathname, 1, Len(pathname) - 1) ELSE pathname
        extMatch == ExtMatch(pathnameWithoutSlash)
    IN  IF extMatch # 0
        THEN << urlObj.origin \o SubSeq(pathnameWithoutSlash, 1, extMatch - 1) \o DotMd,
                urlObj.origin \o pathnameWithoutSlash \o DotMd >>
        ELSE (IF hasTrailingSlash
              THEN << urlObj.origin \o pathname \o IndexMd >> ELSE << >>)
             \o << urlObj.origin \o pathnameWithoutSlash \o DotMd >>
             \o (IF ~hasTrailingSlash
                 THEN << urlObj.origin \o pathnameWithoutSlash \o <<"/">> \o IndexMd >>
                 ELSE << >>)

InitUrls ==
    /\ \E u \in PageUrlStrings :
         call = [fn |-> "generateMarkdownUrls", arg |-> u,
                 returned |-> FALSE, result |-> <<>>]
    /\ IdleRunVars
    /\ IdleRetryVars

GenerateMarkdownUrlsReturns ==
    /\ call.fn = "generateMarkdownUrls"
    /\ ~call.returned
    /\ call' = [call EXCEPT !.returned = TRUE, !.result = generateMarkdownUrls(call.arg)]
    /\ UNCHANGED <<runVars, retryVars>>

NextUrls == GenerateMarkdownUrlsReturns

SpecUrls == InitUrls /\ [][NextUrls]_vars

\* ------------------------------------------------ claims about the batch
PageIds == 1..Len(pages)

\* scrapePage calls that have started and not settled
InFlight == { p \in PageIds : pages[p].pc \notin {"queued", "done"} }

\* C1: in a batch (manifest or follow) of L >= 1 links with maxConcurrent
\* N >= 1, in every reachable state at most N scrapePage calls have started
\* and not settled.
C1_ConcurrencyBound ==
    (strategy \in {"manifest", "follow"} /\ Len(links) >= 1
       /\ opts.maxConcurrent >= 1) =>
          /\ Cardinality(InFlight) <= opts.maxConcurrent
          /\ activeCount = Cardinality(InFlight)

\* the limiter is full and a call waits behind it
C1_Witness_Saturated ==
    /\ pc = "batch"
    /\ Cardinality(InFlight) = opts.maxConcurrent
    /\ queue # <<>>

\* the pages whose fetches always fail
FailingPages == { p \in PageIds : pages[p].disp = "fetchFail" }

BatchEnded == pc = "returned" /\ progress.exists

OnlyFetchFailures == \A p \in PageIds : pages[p].disp \in {"ok", "fetchFail"}

ErrorEntries(url) ==
    { i \in 1..Len(progress.errors) : progress.errors[i].url = url }

\* C2: when the fetches of a subset F of a batch always fail and every other
\* page resolves normally, at batch end every page outside F is written and
\* counted as success, the error list has exactly one entry per page of F
\* and none for the others, and completed = total.
C2_BatchIsolation ==
    (BatchEnded /\ OnlyFetchFailures) =>
        /\ \A p \in PageIds \ FailingPages :
              /\ pages[p].outcome = "success"
              /\ pages[p].url \in files
              /\ ErrorEntries(pages[p].url) = {}
        /\ \A p \in FailingPages :
              /\ pages[p].outcome = "fail"
              /\ Cardinality(ErrorEntries(pages[p].url)) = 1
        /\ Len(progress.errors) = Cardinality(FailingPages)
        /\ progress.success = Cardinality(PageIds \ FailingPages)
        /\ progress.failed = Cardinality(FailingPages)
        /\ progress.total = Len(pages)
        /\ progress.completed = progress.total

\* a batch ended with a failing page next to a page that resolved
C2_Witness_MixedBatch ==
    /\ BatchEnded /\ OnlyFetchFailures
    /\ FailingPages # {}
    /\ PageIds \ FailingPages # {}

\* C3: on every path of a tracked scrapePage the tracker gets exactly one
\* start() and afterwards exactly one of success()/fail()/skip(): none before
\* the call starts, start() alone while it runs, start() and one terminal
\* call once it has settled; the batch ends only when every call has settled.
C3_TrackerLifecycle ==
    progress.exists =>
        /\ \A p \in PageIds :
              /\ pages[p].pc = "queued" => pages[p].calls = <<>>
              /\ p \in InFlight => pages[p].calls = <<"start">>
              /\ pages[p].pc = "done" =>
                    pages[p].calls \in { <<"start", "success">>, <<"start", "fail">>,
                                         <<"start", "skip">> }
        /\ pc = "returned" => \A p \in PageIds : Len(pages[p].calls) = 2
        /\ progress.inProgress = Cardinality(InFlight)
        /\ progress.completed =
              Cardinality({ p \in PageIds : pages[p].pc = "done" })

\* a batch ended with a page that went start/success and one start/fail
C3_Witness_BothEndings ==
    /\ BatchEnded
    /\ \E p, q \in PageIds :
          /\ pages[p].calls = <<"start", "success">>
          /\ pages[q].calls = <<"start", "fail">>

\* --------------------------------------------- claims about discovery
\* the answer to GET {origin}/llms.txt is a document fetchLlmsTxt would parse
ManifestUsable ==
    /\ manifest.kind = "response"
    /\ manifest.ok
    /\ manifest.trimmedLength >= MinManifestLength

\* the links of one section that survive filtering, as PageLinks
SectionExpected(sec) ==
    IF sec.isOptional /\ ~opts.includeOptional THEN <<>>
    ELSE LET kept == SelectSeq(sec.links,
                               LAMBDA l : l.valid /\ l.url.host = "same")
         IN  [k \in 1..Len(kept) |-> PageLink(kept[k].url, kept[k].url.txt)]

\* the manifest's PageLinks after filtering, in manifest order
ExpectedManifestLinks ==
    IF ~ManifestUsable \/ manifest.sections = <<>> THEN <<>>
    ELSE SectionExpected(manifest.sections[1]) \o SectionExpected(manifest.sections[2])

ManifestAnswered == manifest # NotAsked

RunOver == pc \in {"returned", "exited"}

C7_Committed ==
    /\ (ManifestAnswered /\ Len(ExpectedManifestLinks) >= 1) => strategy = "manifest"
    /\ strategy = "manifest" =>
          /\ opts.useLlmsTxt
          /\ Len(links) >= 1
          /\ links = ExpectedManifestLinks
          /\ pc \notin {"extractLinks", "single"}
          /\ \A r \in requests :
                (r.kind = "extractLinks" \/ r.url = OriginUrl) => r.kind = "llms.txt"
          /\ IF opts.dryRun THEN pages = <<>>
             ELSE /\ progress.exists
                  /\ Len(pages) = Len(links)
                  /\ \A i \in 1..Len(links) : pages[i].url = links[i].url
    /\ strategy = "follow" =>
          /\ pc # "single"
          /\ pages # <<>> => progress.exists
          /\ \A r \in requests : r.kind \in {"page", "markdown"} => r.url # OriginUrl
    /\ strategy = "single" =>
          /\ ~progress.exists
          /\ Request("extractLinks", OriginUrl) \notin requests
          /\ \A i \in 1..Len(pages) : pages[i].url = OriginUrl
    /\ strategy = "none" => links = <<>> /\ pages = <<>>

C8_ManifestAbsenceFallsThrough ==
    (ManifestAnswered /\ (~ManifestUsable \/ ExpectedManifestLinks = <<>>)) =>
        /\ strategy # "manifest"
        /\ strategy = (IF opts.followLinksSelector \in {SelEmpty, SelBlank}
                       THEN "single" ELSE "follow")
        /\ strategy = "single" => scrapeState # "rejected"
        /\ strategy = "single" => (pages # <<>> \/ opts.dryRun)
        /\ strategy = "follow" => Request("extractLinks", OriginUrl) \in requests
        /\ "scrape: fatal" \notin { stderr[i] : i \in 1..Len(stderr) }
              \/ (strategy = "follow" /\ links = <<>>)

\* llms.txt was answered 404 with a body that would parse, and the origin
\* was written as a single page
C8_Witness_NotOkThenSingle ==
    /\ manifest.kind = "response" /\ ~manifest.ok /\ manifest.sections # <<>>
    /\ strategy = "single" /\ RunOver
    /\ OriginUrl \in files

\* follow mode found no link: the run is over and resolved with no target
FollowFoundNothing ==
    strategy = "follow" /\ RunOver /\ scrapeState = "resolved" /\ links = <<>>

\* C9: with a follow selector configured and no manifest commit, zero links
\* from extractLinks make scrape print an error and stop: scrapePage is not
\* invoked, no file is written, single-page mode is not entered.
C9_ZeroLinksStops ==
    FollowFoundNothing =>
        /\ stderr = <<"follow: no links", "follow: hint">>
        /\ pages = <<>>
        /\ ~progress.exists
        /\ summaries = 0
        /\ files = {}
        /\ \A r \in requests : r.kind \in {"llms.txt", "extractLinks"}

C9_Witness_ZeroLinksAfterManifest ==
    /\ FollowFoundNothing
    /\ opts.useLlmsTxt /\ ManifestAnswered

\* the discovery-time failures C10 lists
DiscoveryFailure ==
    \/ ~opts.urlOk
    \/ ManifestAnswered /\ ~ManifestUsable
    \/ FollowFoundNothing

\* C10 (as claimed): every discovery-time failure aborts the run before any
\* page work and surfaces as a top-level error: scrape rejects, and the CLI
\* exits non-zero after a single message.
C10_DiscoveryFailureAborts ==
    (RunOver /\ DiscoveryFailure) =>
        /\ pages = <<>> /\ files = {}
        /\ scrapeState # "resolved"
        /\ pc = "exited" => (exitCode # 0 /\ Len(stderr) = 1)

\* C10 (amended): a malformed origin URL aborts before any page work: scrape
\* rejects, and the CLI exits 1 after one message, scrape not called.  A
\* failed fetch of the origin page in follow mode rejects scrape before any
\* page work, and the CLI exits 1 after two messages.  Nothing else rejects
\* scrape: a manifest failure aborts nothing, and zero links from the follow
\* selector stop the run before any page work with two lines printed, scrape
\* resolved and exit status 0.
C10_DiscoveryFailureOutcomes ==
    RunOver =>
        /\ ~opts.urlOk =>
              /\ pages = <<>> /\ files = {} /\ requests = {}
              /\ IF opts.entry = "cli"
                 THEN /\ pc = "exited" /\ scrapeState = "notCalled"
                      /\ exitCode = 1 /\ stderr = <<"main: error">>
                 ELSE /\ scrapeState = "rejected"
                      /\ stderr = <<"scrape: fatal">>
        /\ (opts.urlOk /\ scrapeState = "rejected") =>
              /\ strategy = "follow" /\ links = <<>>
              /\ pages = <<>> /\ files = {}
              /\ pc = "exited" =>
                    (exitCode = 1 /\ stderr = <<"scrape: fatal", "main: error">>)
        /\ FollowFoundNothing =>
              /\ pages = <<>> /\ files = {}
              /\ stderr = <<"follow: no links", "follow: hint">>
              /\ pc = "exited" => exitCode = 0
        /\ (ManifestAnswered /\ ~ManifestUsable /\ scrapeState = "rejected") =>
              strategy = "follow"
        /\ pc = "exited" =>
              (exitCode = 1 <=> (~opts.urlOk \/ scrapeState = "rejected"))

\* the CLI ended with status 0 after the follow selector matched nothing
C10_Witness_ZeroLinksExitZero ==
    /\ FollowFoundNothing
    /\ opts.entry = "cli" /\ pc = "exited" /\ exitCode = 0

\* ------------------------------------- claims about the run's outcome
FailedPages == { p \in PageIds : pages[p].outcome = "fail" }

\* C11: per-page failures never change the process outcome: when discovery
\* succeeded and the batch ran to its end, scrape resolves and the process
\* does not exit non-zero, for 0 up to all pages failed; the failures are in
\* the summary's count and (url, message) list and nowhere on stderr.
C11_PageFailuresKeepExitZero ==
    (RunOver /\ progress.exists) =>
        /\ scrapeState = "resolved"
        /\ summaries = 1
        /\ stderr = <<>>
        /\ exitCode # 1
        /\ pc = "exited" => exitCode = 0
        /\ progress.failed = Cardinality(FailedPages)
        /\ Len(progress.errors) = progress.failed
        /\ \A p \in FailedPages : ErrorEntries(pages[p].url) # {}

\* the CLI ended with status 0 after every page of its batch failed
C11_Witness_AllFailedExitZero ==
    /\ opts.entry = "cli" /\ pc = "exited" /\ exitCode = 0
    /\ Len(pages) >= 2
    /\ FailedPages = PageIds

\* C12: with dryRun set, each branch returns after discovery: scrapePage is
\* not invoked, no native-Markdown candidate and no page URL is requested,
\* no file is written; the only requests are llms.txt and, in follow mode,
\* the origin page.
C12_DryRunDiscoversOnly ==
    opts.dryRun =>
        /\ pages = <<>>
        /\ files = {}
        /\ ~progress.exists /\ summaries = 0
        /\ pc \notin {"batch", "single"}
        /\ \A r \in requests :
              /\ r.kind \in {"llms.txt", "extractLinks"}
              /\ r.kind = "llms.txt" => opts.useLlmsTxt
              /\ r.kind = "extractLinks" => strategy = "follow"
        /\ (RunOver /\ strategy = "manifest") =>
              (scrapeState = "resolved" /\ links = ExpectedManifestLinks)
        /\ (RunOver /\ strategy = "single" /\ opts.urlOk) =>
              (scrapeState = "resolved" /\ links = << PageLink(OriginUrl, FALSE) >>)
        /\ (RunOver /\ strategy = "follow" /\ links # <<>>) =>
              scrapeState = "resolved"

\* a dry run that fell through the manifest and listed the follow links
C12_Witness_FollowDryRun ==
    /\ opts.dryRun /\ RunOver
    /\ ManifestAnswered /\ strategy = "follow" /\ Len(links) >= 2

\* ------------------------------------------- claims about scrapePage
\* the page of a direct call, and positions of its history
ThePage == pages[1]

LogIds == 1..Len(log)

PageFailed == ThePage.pc = "done" /\ ThePage.outcome = "fail"

PageSucceeded == ThePage.pc = "done" /\ ThePage.outcome = "success"

\* C13 (as claimed): a full-content target whose fetch returns a success
\* status is resolved by that fetch alone, for every body: the next thing is
\* the write of the stripped body; no native-Markdown candidate is probed
\* and no HTML fetch follows.  On a non-success status the page is recorded
\* as failed and nothing is written.
C13_FullContentSingleFetch ==
    ThePage.full =>
        \A i \in LogIds :
            /\ log[i].op # "markdown"
            /\ log[i].op \in {"fetch", "reject"} => log[i].stage = "full"
            /\ (log[i].op = "fetch" /\ log[i].resp.ok) =>
                  /\ ThePage.pc \in {"write", "done"}
                  /\ i < Len(log) => log[i + 1].op = "write"
            /\ (log[i].op = "fetch" /\ ~log[i].resp.ok) =>
                  /\ i = Len(log)
                  /\ PageFailed /\ files = {}

\* a candidate's response that the probing chain is to accept
Acceptable(resp) ==
    /\ resp.kind = "response"
    /\ resp.ok
    /\ ~resp.htmlMarker
    /\ resp.length >= MinMarkdownLength

MarkdownEvents == { i \in LogIds : log[i].op = "markdown" }

\* C14: the native-Markdown chain never signals an error: whatever its
\* candidates answer (transport failure, non-success status, HTML marker,
\* short body) no failure is recorded or printed because of it, and when
\* every candidate is rejected scrapePage goes on with the HTML fetch of the
\* original URL.
C14_NativeChainNeverFails ==
    /\ ThePage.pc = "native" =>
          /\ ThePage.outcome = "none"
          /\ progress.failed = 0 /\ progress.errors = <<>>
          /\ stderr = <<>>
    /\ (log # <<>> /\ log[Len(log)].op = "markdown") =>
          /\ ~PageFailed
          /\ progress.failed = 0 /\ stderr = <<>>
          /\ IF Acceptable(log[Len(log)].resp)
             THEN ThePage.pc = "write"
             ELSE IF Len(log) < MarkdownCandidates
             THEN ThePage.pc = "native"
             ELSE /\ ThePage.pc = "fetch" /\ ThePage.stage = "html"
                  /\ ThePage.rt = RetryStart
                  /\ Request("page", ThePage.url) \in requests

\* both candidates failed at transport level and the page was then written
\* from its HTML
C14_Witness_ThrowsThenHtml ==
    /\ Len(log) >= 4
    /\ \A i \in 1..MarkdownCandidates :
          log[i].op = "markdown" /\ log[i].resp.kind = "throw"
    /\ log[3].op = "fetch" /\ log[3].stage = "html"
    /\ PageSucceeded

\* C15: candidates are probed in list order and the first accepted one wins:
\* after a success response without HTML marker that passes the length
\* test, the next thing is the write; no later candidate and no HTML fetch
\* of the page URL is requested.  A rejected candidate is never written.
C15_FirstAcceptedWins ==
    /\ \A i \in MarkdownEvents :
          /\ log[i].cand = i
          /\ i <= MarkdownCandidates
          /\ \A j \in 1..(i - 1) : log[j].op = "markdown" /\ ~Acceptable(log[j].resp)
          /\ Acceptable(log[i].resp) =>
                /\ ThePage.pc \in {"write", "done"}
                /\ Len(log) <= i + 1
                /\ i < Len(log) => log[i + 1].op = "write"
                /\ Request("page", ThePage.url) \notin requests
          /\ (~Acceptable(log[i].resp) /\ i < Len(log)) => log[i + 1].op # "write"
    /\ (opts.useNativeMd /\ ~ThePage.full /\ log # <<>>) => log[1].op = "markdown"

\* the first candidate was rejected, the second accepted and written
C15_Witness_SecondCandidateWins ==
    /\ Len(log) = 3
    /\ log[1].op = "markdown" /\ ~Acceptable(log[1].resp)
    /\ log[2].op = "markdown" /\ Acceptable(log[2].resp)
    /\ log[3].op = "write"
    /\ PageSucceeded

\* C17 (as claimed): on the HTML path the page is recorded as failed with
\* the selector-not-found message, and nothing is written, exactly when no
\* element of the fetched document matches contentAreaSelector; whenever an
\* element matches, the page goes on to conversion and the write.
C17_SelectorMissExactly ==
    \A i \in LogIds :
        (log[i].op = "fetch" /\ log[i].stage = "html" /\ log[i].resp.ok) =>
            IF ~log[i].resp.selectorMatches
            THEN /\ i = Len(log)
                 /\ PageFailed /\ files = {}
                 /\ progress.exists =>
                       progress.errors = << [url |-> ThePage.url, error |-> SelectorMessage] >>
            ELSE /\ ThePage.pc \in {"write", "done"}
                 /\ i < Len(log) => log[i + 1].op = "write"
                 /\ progress.errors = <<>> \/ progress.errors[1].error # SelectorMessage

\* ------------------------------------------------ claims about withRetry
\* The messages of ErrorValues that contain a listed signature when case is
\* ignored (ECONNRESET; "Read Timeout" ~ timeout; "read econnreset" ~ ECONNRESET).
MessagesWithSignature == {MsgConnReset, MsgTimeoutCap, MsgLowerReset}

\* a failure the claims call retryable: no list was given, or it is an Error
\* whose message carries a listed signature
RetryableFailure(o) ==
    /\ ~o.ok
    /\ (~rcfg.hasList \/ (o.err.isError /\ o.err.message \in MessagesWithSignature))

AllRetryableFailures(seq) == \A i \in 1..Len(seq) : RetryableFailure(seq[i])

\* C4: an operation that always fails retryably is invoked exactly
\* maxRetries + 1 times and the last failure propagates; an operation that
\* first succeeds on call k <= maxRetries + 1 is invoked exactly k times and
\* withRetry returns its result.
C4_RetryAttemptCount ==
    /\ retry.calls = Len(outcomes) + (IF retry.status = "calling" THEN 1 ELSE 0)
    /\ retry.calls <= rcfg.maxRetries + 1
    /\ (retry.status = "thrown" /\ AllRetryableFailures(outcomes)) =>
          /\ retry.calls = rcfg.maxRetries + 1
          /\ retry.error = outcomes[Len(outcomes)].err
    /\ \A k \in 1..Len(outcomes) :
          outcomes[k].ok =>
            /\ k = Len(outcomes)
            /\ retry.status = "returned" /\ retry.ok
            /\ retry.calls = k
    /\ retry.status = "returned" => outcomes[Len(outcomes)].ok

C4_Witness_AllFail ==
    /\ rcfg.maxRetries = 3 /\ rcfg.hasList
    /\ retry.status = "thrown" /\ retry.calls = 4
    /\ AllRetryableFailures(outcomes)

\* C5 (as claimed): with a signature list, a failure whose message carries
\* no listed signature propagates at once, whatever was thrown: it is the
\* last invocation, no delay follows it.
C5_NonRetryablePropagatesAtOnce ==
    \A i \in 1..Len(outcomes) :
        (rcfg.hasList /\ ~outcomes[i].ok
           /\ outcomes[i].err.message \notin MessagesWithSignature) =>
             /\ i = Len(outcomes)
             /\ retry.status = "thrown"
             /\ retry.calls = i
             /\ Len(retry.delays) = i - 1

\* C6: the i-th wait (i from 0) is baseDelay * 2^i; one wait between
\* consecutive attempts, none before the first and none after the last;
\* baseDelay 100 and maxRetries 3 give 100, 200, 400.
C6_BackoffSchedule ==
    /\ \A i \in 1..Len(retry.delays) : retry.delays[i] = rcfg.baseDelay * 2^(i - 1)
    /\ Len(retry.delays) = (IF retry.status = "sleeping" THEN retry.calls
                                                         ELSE retry.calls - 1)
    /\ (retry.status = "thrown" /\ retry.attempt = rcfg.maxRetries) =>
          Len(retry.delays) = rcfg.maxRetries
    /\ (rcfg.baseDelay = 100 /\ rcfg.maxRetries = 3 /\ retry.status = "thrown"
          /\ AllRetryableFailures(outcomes)) => retry.delays = <<100, 200, 400>>

C6_Witness_100_200_400 ==
    /\ rcfg.baseDelay = 100 /\ rcfg.maxRetries = 3
    /\ retry.status = "thrown" /\ retry.delays = <<100, 200, 400>>

\* ------------------------------------- claims about generateMarkdownUrls
GenReturned == call.fn = "generateMarkdownUrls" /\ call.returned

\* the path of the argument as it is written: the text between the
\* origin and the first ? or #, empty for a bare origin
ArgPath ==
    LET rest == Tail(call.arg)
        stops == { i \in 1..Len(rest) : rest[i] \in {"?", "#"} }
        end == IF stops = {} THEN Len(rest)
               ELSE (CHOOSE i \in stops : \A j \in stops : i <= j) - 1
    IN  SubSeq(rest, 1, end)

ArgPathHasSlash == ArgPath # <<>> /\ ArgPath[Len(ArgPath)] = "/"

ArgHasQueryOrFragment == \E i \in 1..Len(call.arg) : call.arg[i] \in {"?", "#"}

ArgHasExtension ==
    LET base == IF ArgPathHasSlash
                THEN SubSeq(ArgPath, 1, Len(ArgPath) - 1) ELSE ArgPath
    IN  \E i \in 2..(Len(base) - 1) :
            base[i] = "." /\ \A j \in (i + 1)..Len(base) : base[j] = "a"

\* C16: for a page URL without a file extension, query string and fragment
\* included, the candidates are [<origin><path>index.md,
\* <origin><path-without-trailing-slash>.md] when the path ends with a
\* slash and [<origin><path>.md, <origin><path>/index.md] when it does not
C16_CandidateOrder ==
    (GenReturned /\ ~ArgHasExtension) =>
        LET o == <<UrlOrigin>>
            n == Len(ArgPath)
        IN  IF ArgPathHasSlash
            THEN call.result = << o \o ArgPath \o IndexMd,
                                  o \o SubSeq(ArgPath, 1, n - 1) \o DotMd >>
            ELSE call.result = << o \o ArgPath \o DotMd,
                                  o \o ArgPath \o <<"/">> \o IndexMd >>

\* --------------------------------------- claims about the batch's end
BatchFinished ==
    /\ pc = "returned"
    /\ strategy \in {"manifest", "follow"}
    /\ progress.exists
    /\ progress.completed = progress.total
    /\ progress.total = Len(links)
    /\ progress.inProgress = 0
    /\ summaries = 1

\* C18: when every request, timer and write settles, a batch that started
\* (any number of links, any maxConcurrent) ends with completed = total and
\* inProgress = 0, and the summary is shown once, at that end and not before
C18_BatchTerminates ==
    /\ (pc = "batch") ~> BatchFinished
    /\ [](summaries <= 1)
    /\ [](summaries = 1 => BatchFinished)

C18_Witness_SerialBatchFinished ==
    /\ BatchFinished
    /\ opts.maxConcurrent = 1
    /\ Len(pages) = MaxLinks
    /\ progress.failed >= 1
    /\ progress.success >= 1

\* ---------------------------------------- claims about a hung page
\* a batch of which exactly one page hangs, run with at least two slots
OneHungPage ==
    /\ Cardinality(hung) = 1
    /\ hung \subseteq 1..Len(pages)
    /\ opts.maxConcurrent >= 2

HungInFlight == \E h \in hung : h \in InFlight

\* C19: with maxConcurrent = N >= 2 and one page whose request never
\* settles, every other page of the batch eventually reaches a terminal
\* outcome; while the hung page holds its slot that slot is the only one it
\* takes (at most N - 1 other pages are in flight, N in all); the batch
\* never completes and no summary is produced
C19_HungPageHoldsOneSlot ==
    /\ OneHungPage
          ~> (\A p \in (1..Len(pages)) \ hung :
                  pages[p].pc = "done" /\ pages[p].outcome \in {"success", "fail"})
    /\ [](OneHungPage /\ HungInFlight =>
              /\ Cardinality(InFlight \ hung) <= opts.maxConcurrent - 1
              /\ activeCount = Cardinality(InFlight \ hung) + 1)
    /\ [](OneHungPage =>
              /\ pc = "batch"
              /\ scrapeState = "pending"
              /\ summaries = 0
              /\ progress.completed < progress.total)

C19_Witness_OthersShareTheRest ==
    /\ OneHungPage
    /\ HungInFlight
    /\ Len(pages) = HungLinks
    /\ opts.maxConcurrent = 2
    /\ \A p \in (1..Len(pages)) \ hung : pages[p].pc = "done"
    /\ progress.completed = progress.total - 1
    /\ progress.inProgress = 1

\* ------------------------------------- claims about the final aggregate
PagesWith(result) == { p \in PageIds : pages[p].outcome = result }

\* C20: at the end of a batch the counters and the set of (url, message)
\* error entries are a function of the pages' own outcomes, whatever the
\* order in which the pages settled; the order of the error list is free
C20_AggregateDeterministic ==
    BatchEnded =>
        /\ progress.total = Len(links)
        /\ progress.completed = Len(links)
        /\ progress.success = Cardinality(PagesWith("success"))
        /\ progress.failed = Cardinality(PagesWith("fail"))
        /\ progress.skipped = 0
        /\ Len(progress.errors) = Cardinality(PagesWith("fail"))
        /\ { progress.errors[i] : i \in 1..Len(progress.errors) }
              = { [url |-> pages[p].url, error |-> pages[p].msg] : p \in PagesWith("fail") }

\* two pages failed and the second was recorded first
C20_Witness_ReversedErrorOrder ==
    /\ BatchEnded
    /\ opts.maxConcurrent >= 2
    /\ Len(progress.errors) = 2
    /\ pages[1].url # pages[2].url
    /\ progress.errors[1].url = pages[2].url
    /\ progress.errors[2].url = pages[1].url
    /\ progress.errors[1].error # progress.errors[2].error

\* ------------------------------------------- claims about parseLlmsTxt
Parsed == call.fn = "parseLlmsTxt" /\ call.returned

ArgLines == split(call.arg)

IsHeadingLine(l) ==
    LET t == trim(l) IN Len(t) >= 3 /\ t[1] = "#" /\ t[2] = "#" /\ t[3] = " "

IsListLine(l) == LET t == trim(l) IN t # <<>> /\ t[1] \in {"-", "*"}

HeadingLines == { i \in 1..Len(ArgLines) : IsHeadingLine(ArgLines[i]) }

\* the line number of the k-th heading
HeadingAt(k) ==
    CHOOSE i \in HeadingLines : Cardinality({ j \in HeadingLines : j <= i }) = k

\* the last line before the heading after the k-th one
SectionEnd(k) ==
    IF k < Cardinality(HeadingLines) THEN HeadingAt(k + 1) - 1 ELSE Len(ArgLines)

\* where a [title](url) with non-empty title and url stands in a text
LinkPlaces(text) ==
    { ijk \in (1..Len(text)) \X (1..Len(text)) \X (1..Len(text)) :
        /\ text[ijk[1]] = "[" /\ text[ijk[2]] = "]" /\ text[ijk[3]] = ")"
        /\ ijk[1] + 1 < ijk[2]
        /\ ijk[2] + 2 < ijk[3]
        /\ text[ijk[2] + 1] = "("
        /\ \A x \in (ijk[1] + 1)..(ijk[2] - 1) : text[x] # "]"
        /\ \A x \in (ijk[2] + 2)..(ijk[3] - 1) : text[x] # ")" }

\* what a list line contributes by itself: its first [title](url), if any
RECURSIVE LinksOfLines(_, _)
LinksOfLines(from, to) ==
    IF from > to THEN <<>>
    ELSE LET l == ArgLines[from]
             text == trim(SubSeq(trim(l), 2, Len(trim(l))))
             places == LinkPlaces(text)
         IN  (IF IsListLine(l) /\ places # {}
              THEN LET m == CHOOSE x \in places : \A y \in places : x[1] <= y[1]
                   IN  << [title |-> trim(SubSeq(text, m[1] + 1, m[2] - 1)),
                           url |-> trim(SubSeq(text, m[2] + 2, m[3] - 1))] >>
              ELSE <<>>)
             \o LinksOfLines(from + 1, to)

TitleAndUrl(ls) == [i \in 1..Len(ls) |-> [title |-> ls[i].title, url |-> ls[i].url]]

\* C21: N `## ` headings give N sections in source order, those without a
\* link included; the links of a section are what the list lines between
\* its heading and the next one contribute one by one, in source order, so
\* that a list line without a [title](url) adds nothing and changes nothing
C21_SectionsAndLinksInOrder ==
    Parsed =>
        /\ Len(call.result.sections) = Cardinality(HeadingLines)
        /\ \A k \in 1..Len(call.result.sections) :
              /\ call.result.sections[k].title
                    = trim(SubSeq(trim(ArgLines[HeadingAt(k)]), 4,
                                  Len(trim(ArgLines[HeadingAt(k)]))))
              /\ TitleAndUrl(call.result.sections[k].links)
                    = LinksOfLines(HeadingAt(k) + 1, SectionEnd(k))

\* the longer manifest parsed: three sections, the middle one empty, the
\* first with the links around its malformed line
C21_Witness_MalformedBetweenSiblings ==
    /\ Parsed
    /\ Len(ArgLines) = Len(LongLines)
    /\ Len(call.result.sections) = 3
    /\ Len(call.result.sections[1].links) = 2
    /\ call.result.sections[1].links[1].url = <<"/p1">>
    /\ call.result.sections[1].links[2].url = <<"/p2">>
    /\ call.result.sections[2].links = <<>>
    /\ Len(call.result.sections[3].links) = 1

QuoteLines == { i \in 1..Len(ArgLines) : trim(ArgLines[i]) # <<>> /\ trim(ArgLines[i])[1] = ">" }

\* C26: the details mode a `>` line opens ends at the first `## ` heading
\* after it, whether or not a details line was collected before the
\* heading: no line is added to details across a heading that follows the
\* `>` line that opened the mode
C26_DetailsEndAtHeading ==
    Parsed =>
        \A i \in 1..Len(call.result.detailsFrom) :
            LET n == call.result.detailsFrom[i]
            IN  \A q \in QuoteLines, h \in HeadingLines :
                    (q < h /\ h < n) => \E r \in QuoteLines : h < r /\ r < n

\* --------------------------------------- claims about llmsTxtToPageLinks
Converted == call.fn = "llmsTxtToPageLinks" /\ call.returned

\* a section title that reads "optional" in some letter case
TitledOptional(title) ==
    /\ Len(title) = 8
    /\ \A i \in 1..8 :
          title[i] \in { <<"o", "p", "t", "i", "o", "n", "a", "l">>[i],
                         <<"O", "P", "T", "I", "O", "N", "A", "L">>[i] }

\* scheme, hostname and port are those of the base URL
SameOrigin(url) == url.scheme = "same" /\ url.host = "same" /\ url.port = "same"

\* the links of the manifest, in document order, that parse and are
\* same-origin, with the Optional sections left out unless asked for
RECURSIVE SameOriginTargets(_, _)
SameOriginTargets(secs, includeOptional) ==
    IF secs = <<>> THEN <<>>
    ELSE LET sec == Head(secs)
             resolved == [j \in 1..Len(sec.links) |-> ResolveTarget(sec.links[j].url)]
         IN  (IF TitledOptional(sec.title) /\ ~includeOptional THEN <<>>
              ELSE SelectSeq([j \in 1..Len(resolved) |-> resolved[j].url],
                             LAMBDA u : \E j \in 1..Len(resolved) :
                                 resolved[j].url = u /\ resolved[j].valid /\ SameOrigin(u)))
             \o SameOriginTargets(Tail(secs), includeOptional)

\* C22: the result is the same-origin links of the sections that are not
\* titled Optional (J links) and, with includeOptional, those of the
\* Optional section too (J + K), in document order, cross-origin links left out
C22_OptionalFiltering ==
    Converted =>
        [i \in 1..Len(call.result) |-> call.result[i].url]
            = SameOriginTargets(call.arg.llmsTxt.sections, call.arg.includeOptional)

\* C23: every link returned has the host of the origin URL, hostname and
\* port, whatever the manifest links differ in
C23_ReturnedLinksOnOriginHost ==
    Converted =>
        \A i \in 1..Len(call.result) :
            call.result[i].url.host = "same" /\ call.result[i].url.port = "same"

\* --------------------------------------------- extractLinks with its titles
\* An element the follow selector matched, with the text of its href
\* attribute and its text content.
MaxAnchors == MaxLinks + 1

\* href attributes: a path, the same page as an absolute URL, another path,
\* a page with a fragment, an asset, no href
HrefSamples ==
    { <<"/p1">>, <<UrlOrigin, "/p1">>, <<"/p2">>, <<"/p1", "#", "s">>,
      <<"/", "_next", "/a">>, <<>> }

\* text contents: two titles, one of them padded, and blank text
TextSamples == { <<"T1">>, <<" ", "T2", "\n">>, <<" ">> }

AnchorElements == { [href |-> h, text |-> t] : h \in HrefSamples, t \in TextSamples }

AnchorLists == UNION { [1..n -> AnchorElements] : n \in 0..MaxAnchors }

\* new URL(href, baseUrl).href for baseUrl = UrlOrigin + "/"
FullUrl(href) == IF href # <<>> /\ href[1] = UrlOrigin THEN href ELSE <<UrlOrigin>> \o href

\* the asset filter of extractLinks
IsAssetHref(href) ==
    includes(href, <<"_next">>) \/ includes(href, <<"sitemap">>) \/ includes(href, <<"favicon">>)

\* the variant that deduplicates on the href attribute as written
RECURSIVE EachAnchorByHref(_, _)
EachAnchorByHref(els, seenUrls) ==
    IF els = <<>> THEN <<>>
    ELSE LET href == Head(els).href
             title == trim(Head(els).text)
         IN  IF href = <<>> \/ title = <<>> \/ IsAssetHref(href) \/ href \in seenUrls
             THEN EachAnchorByHref(Tail(els), seenUrls)
             ELSE << [url |-> FullUrl(href), title |-> title] >>
                  \o EachAnchorByHref(Tail(els), seenUrls \cup {href})

\* the callback of $(followLinksSelector).each, over the matched elements in
\* document order; the value is linksToScrape
RECURSIVE EachAnchor(_, _)
EachAnchor(els, seenUrls) ==
    IF els = <<>> THEN <<>>
    ELSE LET href == Head(els).href
             title == trim(Head(els).text)
             fullUrl == FullUrl(href)
         IN  IF href = <<>> \/ title = <<>> \/ IsAssetHref(href) \/ fullUrl \in seenUrls
             THEN EachAnchor(Tail(els), seenUrls)
             ELSE << [url |-> fullUrl, title |-> title] >>
                  \o EachAnchor(Tail(els), seenUrls \cup {fullUrl})

InitLinks ==
    /\ \E els \in AnchorLists :
         call = [fn |-> "extractLinks", arg |-> els, returned |-> FALSE, result |-> <<>>]
    /\ IdleRunVars
    /\ IdleRetryVars

ExtractLinksReturns ==
    /\ call.fn = "extractLinks"
    /\ ~call.returned
    /\ call' = [call EXCEPT !.returned = TRUE, !.result = EachAnchor(call.arg, {})]
    /\ UNCHANGED <<runVars, retryVars>>

NextLinks == ExtractLinksReturns

SpecLinks == InitLinks /\ [][NextLinks]_vars

\* ------------------------------------------------ claims about extractLinks
Extracted == call.fn = "extractLinks" /\ call.returned

\* the matched elements extractLinks does not skip
Kept(i) ==
    /\ call.arg[i].href # <<>>
    /\ trim(call.arg[i].text) # <<>>
    /\ ~IsAssetHref(call.arg[i].href)

\* the kept elements that are the first with their absolute URL
FirstOfUrl ==
    { i \in 1..Len(call.arg) :
        /\ Kept(i)
        /\ \A j \in 1..(i - 1) :
             Kept(j) => FullUrl(call.arg[j].href) # FullUrl(call.arg[i].href) }

\* C24: the list extractLinks returns has no two entries with the same
\* absolute URL; of the anchors that resolve to one URL the first one that
\* is not skipped is kept, with its title; and the entries stand in the order
\* in which their URLs first occur in the document.
C24_ExtractLinksDedupes ==
    Extracted =>
        /\ \A i, j \in 1..Len(call.result) :
             call.result[i].url = call.result[j].url => i = j
        /\ Len(call.result) = Cardinality(FirstOfUrl)
        /\ \A i \in FirstOfUrl :
             LET k == Cardinality({ j \in FirstOfUrl : j <= i })
             IN  call.result[k] = [url |-> FullUrl(call.arg[i].href),
                                   title |-> trim(call.arg[i].text)]

\* two anchors written differently resolve to one URL and carry different
\* titles, and another page follows them
C24_Witness_SameUrlTwoTitles ==
    /\ Extracted
    /\ Len(call.result) = 2
    /\ \E i, j \in 1..Len(call.arg) :
         /\ i < j /\ Kept(i) /\ Kept(j)
         /\ call.arg[i].href # call.arg[j].href
         /\ FullUrl(call.arg[i].href) = FullUrl(call.arg[j].href)
         /\ trim(call.arg[i].text) # trim(call.arg[j].text)
         /\ call.result[1].title = trim(call.arg[i].text)

\* ------------------------------------ preview_scrape and scrape_documentation
\* The parameters the two tools share, and the site as both see it: the
\* answer to GET {origin}/llms.txt and what the follow selector matches in
\* the page at params.url.
ToolParams ==
    [mode : {"auto", "follow", "single"}, followLinksSelector : {SelEmpty, SelNav},
     useLlmsTxt : BOOLEAN, includeOptional : BOOLEAN]

Sites == [manifest : ManifestResponses, anchors : AnchorSamples]

\* { title: link.title, url: link.url } for each link of a discovered list
LinkTargets(ls) == [i \in 1..Len(ls) |-> [url |-> ls[i].url, title |-> "link.title"]]

\* the one target of the single-page branch: params.url, titled by the last
\* segment of its path, or 'index'
SingleTarget == << [url |-> OriginUrl, title |-> "index"] >>

\* handlePreviewScrape: the pages of its response
handlePreviewScrape(params, site) ==
    LET llmsTxt == IF params.useLlmsTxt /\ params.mode = "auto"
                   THEN FetchLlmsTxt(site.manifest) ELSE NoManifest
        fromManifest ==
            IF llmsTxt.found
            THEN LinkTargets(llmsTxtToPageLinks(llmsTxt.sections, params.includeOptional))
            ELSE <<>>
        fromSelector ==
            IF Len(fromManifest) = 0 /\ params.followLinksSelector # SelEmpty
            THEN LinkTargets(extractLinks(site.anchors))
            ELSE fromManifest
    IN  [threw |-> FALSE,
         pages |-> IF Len(fromSelector) = 0 THEN SingleTarget ELSE fromSelector]

\* handleScrapeDocumentation, lines "Determine mode" to "Prepare scraper
\* options": the options scrape() is called with, or the throw
ScraperOptionsOf(params) ==
    [threw |-> params.mode = "follow" /\ params.followLinksSelector = SelEmpty,
     followLinksSelector |->
        IF params.mode = "single" THEN SelEmpty ELSE params.followLinksSelector,
     useLlmsTxt |-> IF params.mode \in {"single", "follow"} THEN FALSE ELSE params.useLlmsTxt,
     includeOptional |-> params.includeOptional]

\* scrape(): the links it hands to scrapePage, in the order of links.map
ScrapeTargets(options, site) ==
    LET llmsTxt == IF options.useLlmsTxt THEN FetchLlmsTxt(site.manifest) ELSE NoManifest
        ls == llmsTxtToPageLinks(llmsTxt.sections, options.includeOptional)
    IN  IF llmsTxt.found /\ ManifestCommits(ls) THEN LinkTargets(ls)
        ELSE IF FollowConfigured(options.followLinksSelector)
        THEN (IF NoLinksFound(extractLinks(site.anchors)) THEN <<>>
              ELSE LinkTargets(extractLinks(site.anchors)))
        ELSE SingleTarget

\* handleScrapeDocumentation: what the run it starts processes
handleScrapeDocumentation(params, site) ==
    LET options == ScraperOptionsOf(params)
    IN  IF options.threw THEN [threw |-> TRUE, pages |-> <<>>]
        ELSE [threw |-> FALSE, pages |-> ScrapeTargets(options, site)]

\* a preview, then the scrape it previews, on the same site
InitTools ==
    /\ \E params \in ToolParams, site \in Sites :
         call = [fn |-> "preview_scrape", arg |-> [params |-> params, site |-> site],
                 returned |-> FALSE, result |-> <<>>]
    /\ IdleRunVars
    /\ IdleRetryVars

PreviewScrapeReturns ==
    /\ call.fn = "preview_scrape"
    /\ call' = [call EXCEPT !.fn = "scrape_documentation",
                            !.result = << handlePreviewScrape(call.arg.params, call.arg.site) >>]
    /\ UNCHANGED <<runVars, retryVars>>

ScrapeDocumentationReturns ==
    /\ call.fn = "scrape_documentation"
    /\ ~call.returned
    /\ call' = [call EXCEPT !.returned = TRUE,
                            !.result = @ \o << handleScrapeDocumentation(call.arg.params,
                                                                          call.arg.site) >>]
    /\ UNCHANGED <<runVars, retryVars>>

NextTools == PreviewScrapeReturns \/ ScrapeDocumentationReturns

SpecTools == InitTools /\ [][NextTools]_vars

\* ------------------------------------------- claims about the preview tool
Previewed == call.fn = "scrape_documentation" /\ call.returned

\* C25: for the same parameters and site, the pages preview_scrape lists are
\* the targets scrape_documentation processes: same URLs, same titles, same
\* order, in every mode, with or without a follow selector, whatever the
\* manifest and the selector yield.
C25_PreviewMatchesScrape ==
    Previewed =>
        /\ ~call.result[2].threw
        /\ call.result[1].pages = call.result[2].pages

\* ------------------------------------------ claims about the tracker's sums
\* C27: in every state of a batch the tracker's counters agree: completed is
\* success + failed + skipped, there is one error entry per failed page,
\* inProgress lies between 0 and maxConcurrent, and inProgress + completed
\* does not exceed total.
C27_TrackerSums ==
    progress.exists =>
        /\ progress.completed = progress.success + progress.failed + progress.skipped
        /\ Len(progress.errors) = progress.failed
        /\ 0 <= progress.inProgress
        /\ progress.inProgress <= opts.maxConcurrent
        /\ progress.inProgress + progress.completed <= progress.total

\* every slot is taken while one page has failed and pages still wait
C27_Witness_FullWithFailure ==
    /\ progress.exists
    /\ opts.maxConcurrent < progress.total
    /\ progress.inProgress = opts.maxConcurrent
    /\ progress.failed = 1
    /\ Len(progress.errors) = 1

\* ------------------------------------- claims about the candidates' origin
\* C28: every candidate generateMarkdownUrls produces has the origin of the
\* page URL: the candidate is the origin followed by nothing or by a path,
\* query or fragment, for every page URL, the site root included.
C28_CandidatesKeepOrigin ==
    GenReturned =>
        \A i \in 1..Len(call.result) :
            /\ call.result[i][1] = Head(call.arg)
            /\ Len(call.result[i]) > 1 => call.result[i][2] \in {"/", "?", "#"}

\* --------------------------------------- claims about non-success statuses
\* fetches of the page that resolved with a status for which response.ok is
\* false
NotOkEvents == { i \in LogIds : log[i].op = "fetch" /\ ~log[i].resp.ok }

ScrapeDocumentationResponse(old) ==
    IF scrapeState = "resolved"
    THEN [success |-> TRUE,
          filesCreated |-> Cardinality(files) + old,
          stats |-> [total |-> Cardinality(files) + old,
                     successful |-> Cardinality(files) + old,
                     failed |-> 0],
          errors |-> <<>>]
    ELSE [success |-> FALSE,
          filesCreated |-> 0,
          stats |-> [total |-> 0, successful |-> 0, failed |-> 0],
          errors |-> << [url |-> OriginUrl,
                         error |-> ThrownMessage(Err(TRUE, MsgFetchFailed))] >>]

\* the tool callback returns the response
ScrapeDocumentationResponds ==
    /\ pc = "returned"
    /\ ~call.returned
    /\ \E old \in {0, 1} :
         call' = [fn |-> "scrape_documentation", arg |-> <<old>>, returned |-> TRUE,
                  result |-> ScrapeDocumentationResponse(old)]
    /\ UNCHANGED <<runVars, retryVars>>

NextScrapeTool == NextBatch \/ ScrapeDocumentationResponds

SpecScrapeTool == InitBatch /\ [][NextScrapeTool]_vars

\* ------------------------------------------ claims about the tool response
Responded == call.fn = "scrape_documentation" /\ call.returned /\ pc = "returned"

\* C30: the response of scrape_documentation reflects the batch of its run:
\* stats.failed is the number of pages that failed, errors lists their
\* (url, message) pairs, and stats.total, stats.successful and filesCreated
\* count the pages this run processed and wrote.
C30_ResponseReflectsBatch ==
    (Responded /\ call.result.success) =>
        /\ call.result.stats.failed = Cardinality(FailedPages)
        /\ { call.result.errors[i] : i \in 1..Len(call.result.errors) }
              = { [url |-> pages[p].url, error |-> pages[p].msg] : p \in FailedPages }
        /\ call.result.stats.total = Len(pages)
        /\ call.result.stats.successful = Cardinality(files)
        /\ call.result.filesCreated = Cardinality(files)

====
